---------------------------- MODULE Spec2Model ----------------------------
(***************************************************************************)
(* Model of the fire-risk batch pipeline of "Model predictions/":          *)
(*   historic_data.py    grid indexer, label classifier, fire/meteo fusion *)
(*                       and the synthetic feature augmentor               *)
(*   predictive_model.py split_and_resample                                *)
(*   predictions.py      remap_time_column, prepare_features,              *)
(*                       add_predictions                                   *)
(*                                                                         *)
(* Number representation (TLC has integers only):                          *)
(*   latitude / longitude      hundredths of a degree                      *)
(*   cell_lat / cell_lon       thousandths of a degree (3 decimals)        *)
(*   frp, frp_max              thousandths                                 *)
(*   a float cell of a table   <<>> for NaN, <<num, den>> for the rational *)
(*                             num/den counted in hundredths               *)
(*   a string built by an f-string: the sequence of its characters         *)
(***************************************************************************)
EXTENDS Integers, Sequences, FiniteSets, TLC

VARIABLES
    fire_csv,      \* rows of the fire file read at historic_data.py:91
    meteo_csv,     \* rows of the meteorological file read at historic_data.py:102
    df_model,      \* the table load_df_model returns
    fusion_pc,     \* "start", "done" (returned) or "failed" (raised)
    frp_arg,       \* the argument of a call of classify_frp
    frp_class,     \* what the call returned, -1 before it returns
    forecast_csv,  \* rows of the forecast file INPUT_CSV (predictions.py:6)
    today,         \* datetime.today().date() of the run, a day number
    df_meteo,      \* the forecast table of predictions.main
    df_features,   \* the feature matrix of prepare_features
    features_columns, \* list(df_features.columns)
    clf,           \* the classifier train_and_return_model returned
    predictions_csv, \* rows written to OUTPUT_CSV
    forecast_pc,   \* position of predictions.main
    y,             \* the label vector given to split_and_resample; row i of X
                   \* is known by its index i
    train,         \* X_train, y_train of line 56: rows [id, label, synthetic]
    test,          \* X_test, y_test of line 56
    train_resampled, \* X_train_resampled, y_train_resampled of line 60
    split_pc,      \* position of split_and_resample
    prepared,      \* <<X, y>> as prepare_data returned them
    prepare_pc,    \* position of prepare_data
    point,         \* <<lat, lon>> given to compute_cell_id
    point_cell,    \* what compute_cell_id returned for the point
    cell_cell,     \* what it returned for the cell_lat, cell_lon of point_cell
    cell_pc,       \* position of the two calls of compute_cell_id
    fused_csv,     \* rows written to output_csv by historic_data.main
    historic_pc,   \* position of historic_data.main
    train_pc,      \* position of train_and_return_model
    entropy,       \* per run, what the operating system seeds a generator
                   \* with that the code gave no seed
    run_pc,        \* per run, position of split_and_resample and train_random_forest
    run_split,     \* per run, <<train, test>> of line 56
    run_resampled, \* per run, the resampled training set of line 60
    run_clf,       \* per run, the forest fitted at line 76
    run_df_model,  \* per run, the table load_df_model returned
    run_fusion_pc, \* per run, position of load_df_model
    model_pc,      \* position of predictive_model.main
    y_pred,        \* clf.predict(X_test) of evaluate_model
    again_pc,      \* position of a second call of remap_time_column
    day_again,     \* datetime.today().date() of the second call
    df_again       \* what the second call returned

fusionVars == <<fire_csv, meteo_csv, df_model, fusion_pc>>

classifyVars == <<frp_arg, frp_class>>

forecastVars ==
    <<forecast_csv, today, df_meteo, df_features, features_columns, clf, predictions_csv,
      forecast_pc>>

splitVars == <<y, train, test, train_resampled, split_pc>>

prepareVars == <<prepared, prepare_pc>>

cellVars == <<point, point_cell, cell_cell, cell_pc>>

historicVars == <<fused_csv, historic_pc>>

trainVars == <<train_pc>>

runsVars ==
    <<entropy, run_pc, run_split, run_resampled, run_clf, run_df_model, run_fusion_pc>>

modelVars == <<model_pc, y_pred>>

againVars == <<again_pc, day_again, df_again>>

\* the variables of prepare_data, of the calls of compute_cell_id, of
\* historic_data.main, of train_and_return_model, of the pair of runs and of
\* predictive_model.main, of the second call of remap_time_column
restVars ==
    <<prepareVars, cellVars, historicVars, trainVars, runsVars, modelVars, againVars>>

vars == <<fusionVars, classifyVars, forecastVars, splitVars, restVars>>

-----------------------------------------------------------------------------
(* Bounds of the model *)

\* total number of rows in the two input files of load_df_model
MaxRows == 3

\* largest frp, in thousandths, classify_frp is called with
MaxFrpArg == 10010

\* number of rows of the forecast file
MaxForecastRows == 3

\* number of rows of the matrix given to split_and_resample
MaxSamples == 18

-----------------------------------------------------------------------------
(* historic_data.py: constants *)

FEATURE_COLUMNS ==
    <<"u10", "v10", "t2m", "d2m", "msl", "sst", "sp",
      "u100", "v100", "stl1", "swvl1", "cvh">>

FeatureSet == {FEATURE_COLUMNS[i] : i \in 1..Len(FEATURE_COLUMNS)}

\* predictive_model.py: FEATURE_COLUMNS, the list predictions.py imports
predictive_model_FEATURE_COLUMNS ==
    <<"u10", "v10", "t2m", "d2m", "msl", "sst", "sp",
      "u100", "v100", "stl1", "swvl1", "cvh">>

\* class -> feature -> mean, in hundredths
FIRE_CLASS_MEANS ==
    (0 :> [u10 |-> 250, v10 |-> 150, t2m |-> 29000, d2m |-> 28500,
           msl |-> 101500, sst |-> 29500, sp |-> 101300, u100 |-> 300,
           v100 |-> 200, stl1 |-> 28500, swvl1 |-> 25, cvh |-> 50])
 @@ (1 :> [u10 |-> 400, v10 |-> 250, t2m |-> 29500, d2m |-> 29000,
           msl |-> 101000, sst |-> 29600, sp |-> 100800, u100 |-> 500,
           v100 |-> 350, stl1 |-> 29000, swvl1 |-> 20, cvh |-> 30])
 @@ (2 :> [u10 |-> 600, v10 |-> 400, t2m |-> 30000, d2m |-> 29500,
           msl |-> 100500, sst |-> 29700, sp |-> 100300, u100 |-> 700,
           v100 |-> 500, stl1 |-> 29500, swvl1 |-> 15, cvh |-> 10])

\* default cell_size 0.1 of compute_cell_id, in hundredths of a degree
CellSize == 10

\* threshold of classify_frp (frp < 10), in thousandths
HighFrp == 10000

\* default noise_std 0.02 of replace_with_class_means, in hundredths
NoiseStd == 2

\* test_size=0.2 of the train_test_split call, in percent
TestSize == 20

\* random_state of train_test_split, of SMOTE and of RandomForestClassifier
SplitSeed == 42

SmoteSeed == 42

ForestSeed == 42

\* k_neighbors of SMOTE(random_state=42), the default of the library
KNeighbors == 5

-----------------------------------------------------------------------------
(* Float cells *)

NaN == <<>>

IsNull(c) == c = NaN

Num(v) == <<v, 1>>

\* A coordinate is an integer of hundredths; the coordinate of a row whose
\* field is empty, which pd.read_csv reads as nan, is this value outside the
\* range of coordinates
NanCoord == 1000000

\* the float cell of a coordinate
CoordCell(x) == IF x = NanCoord THEN NaN ELSE Num(x)

-----------------------------------------------------------------------------
(* historic_data.py: compute_cell_id *)

\* Coordinates x (hundredths) of the modelled range whose IEEE double quotient
\* x / 0.1 falls just below the integer it equals in exact arithmetic
\* (36.8 / 0.1 = 367.99999999999994), so that np.floor returns one less.
QuotientBelowInteger == {30, 60, 70, 3630, 3640, 3680, 3690}

\* np.floor(x / cell_size) for cell_size = 0.1
FloorQuotient(x) ==
    IF x \in QuotientBelowInteger THEN (x \div CellSize) - 1 ELSE x \div CellSize

DigitChar == <<"0", "1", "2", "3", "4", "5", "6", "7", "8", "9">>

RECURSIVE Digits(_)
Digits(n) ==
    IF n < 10 THEN <<DigitChar[n + 1]>>
    ELSE Digits(n \div 10) \o <<DigitChar[(n % 10) + 1]>>

Abs(n) == IF n < 0 THEN -n ELSE n

\* f"{v:.3f}" for a value of m thousandths
Format3(m) ==
    (IF m < 0 THEN <<"-">> ELSE <<>>)
    \o Digits(Abs(m) \div 1000) \o <<".">>
    \o <<DigitChar[((Abs(m) \div 100) % 10) + 1],
         DigitChar[((Abs(m) \div 10) % 10) + 1],
         DigitChar[(Abs(m) % 10) + 1]>>

\* floor(x / cell_size) * cell_size in thousandths: the product of the integer
\* quotient and the double 0.1 is within 1e-13 of the multiple of 0.1, so both
\* .round(3) and the .3f format give that multiple
\* of a missing coordinate: nan / 0.1, its floor and the product are nan
CellOf(x) == IF x = NanCoord THEN NanCoord ELSE FloorQuotient(x) * CellSize * 10

\* f"{v:.3f}" of a cell coordinate: "nan" for nan
FormatCoord(m) == IF m = NanCoord THEN <<"n", "a", "n">> ELSE Format3(m)

\* the cell of the first coordinate taken for both
compute_cell_id_of_lat(lat, lon) ==
    <<CellOf(lat), CellOf(lat),
      FormatCoord(CellOf(lat)) \o <<"_">> \o FormatCoord(CellOf(lat))>>

compute_cell_id(lat, lon) ==
    <<CellOf(lat), CellOf(lon),
      FormatCoord(CellOf(lat)) \o <<"_">> \o FormatCoord(CellOf(lon))>>

-----------------------------------------------------------------------------
(* historic_data.py: classify_frp *)

\* classify_frp with the returns of its last two branches swapped
classify_frp_swapped(frp) ==
    IF frp = 0 THEN 0
    ELSE IF frp < HighFrp THEN 2
    ELSE 1

\* classify_frp with the boundary value 10 put in class 1
classify_frp_inclusive(frp) ==
    IF frp = 0 THEN 0
    ELSE IF frp <= HighFrp THEN 1
    ELSE 2

classify_frp(frp) ==
    IF frp = 0 THEN 0
    ELSE IF frp < HighFrp THEN 1
    ELSE 2

-----------------------------------------------------------------------------
(* Input domains of the fusion model *)

\* calendar days (acq_date of a detection, date part of an observation time)
Days == {1, 2}

\* observation timestamps <<day, hour>>
Times == {<<1, 0>>, <<1, 12>>, <<2, 0>>}

\* 36.80 falls in cell 36.700 (36.8 / 0.1 floors to 367), 36.90 in cell 36.800
Lats == {3680, 3690}

Lons == {-11940}

\* frp values, thousandths: 0, 9.999 and 10
FrpValues == {0, 9999, 10000}

\* feature vectors of an observation: everything observed, and everything but
\* sst observed
FeatureVectors ==
    { [c \in FeatureSet |-> Num(100)],
      [c \in FeatureSet |-> IF c = "sst" THEN NaN ELSE Num(300)] }

FireRows ==
    [latitude : Lats, longitude : Lons, acq_date : Days, frp : FrpValues]

MeteoRows ==
    { [latitude |-> la, longitude |-> lo, time |-> t] @@ fv :
        la \in Lats, lo \in Lons, t \in Times, fv \in FeatureVectors }

\* The 12 independent Gaussian draws of np.random.normal for one row, each in
\* half standard deviations. The distribution has unbounded support; the model
\* keeps two vectors of draws: half a deviation either way, and draws at 6 and
\* beyond 6 deviations.
NoiseVectors ==
    { [c \in FeatureSet |-> IF c \in {"u10", "t2m", "msl"} THEN 1 ELSE -1],
      [c \in FeatureSet |-> IF c = "u10" THEN 13 ELSE IF c = "cvh" THEN -13 ELSE 12] }

RECURSIVE KSubsets(_, _)
KSubsets(S, k) ==
    IF k = 0 THEN {{}}
    ELSE LET smaller == KSubsets(S, k - 1)
         IN  smaller \cup {T \cup {x} : T \in smaller, x \in S}

RECURSIVE SetToSeq(_)
SetToSeq(S) ==
    IF S = {} THEN <<>>
    ELSE LET x == CHOOSE e \in S : TRUE IN <<x>> \o SetToSeq(S \ {x})

-----------------------------------------------------------------------------
(* Table helpers (pandas) *)

RECURSIVE SumSeq(_)
SumSeq(s) == IF s = <<>> THEN 0 ELSE Head(s) + SumSeq(Tail(s))

RECURSIVE Flatten(_)
Flatten(ss) == IF ss = <<>> THEN <<>> ELSE Head(ss) \o Flatten(Tail(ss))

\* the aggregate 'min' in place of 'max'
MinOf(S) == CHOOSE m \in S : \A x \in S : m <= x

MaxOf(S) == CHOOSE m \in S : \A x \in S : x <= m

\* ASCII codes of the characters of a cell_id
CharCode == [c \in {"-", ".", "_", "a", "n"} \cup {DigitChar[i] : i \in 1..10} |->
    CASE c = "-" -> 45
      [] c = "." -> 46
      [] c = "_" -> 95
      [] c = "a" -> 97
      [] c = "n" -> 110
      [] OTHER -> 47 + (CHOOSE i \in 1..10 : DigitChar[i] = c)]

RECURSIVE StrLess(_, _)
StrLess(s, t) ==
    IF t = <<>> THEN FALSE
    ELSE IF s = <<>> THEN TRUE
    ELSE IF Head(s) # Head(t) THEN CharCode[Head(s)] < CharCode[Head(t)]
    ELSE StrLess(Tail(s), Tail(t))

\* order of the group keys <<date, cell_id>>
KeyLess(a, b) == a[1] < b[1] \/ (a[1] = b[1] /\ StrLess(a[2], b[2]))

RECURSIVE SortKeys(_)
SortKeys(K) ==
    IF K = {} THEN <<>>
    ELSE LET k == CHOOSE a \in K : \A b \in K \ {a} : KeyLess(a, b)
         IN  <<k>> \o SortKeys(K \ {k})

KeyOf(r) == <<r.date, r.cell_id>>

\* the group keys of a keyed table, sorted (groupby sorts its keys)
GroupKeys(df) == SortKeys({KeyOf(df[i]) : i \in DOMAIN df})

GroupOf(df, k) == SelectSeq(df, LAMBDA r : KeyOf(r) = k)

\* mean of a column over a group, NaN cells skipped
MeanOf(rows, col) ==
    LET present == SelectSeq(rows, LAMBDA r : ~IsNull(r[col]))
    IN  IF present = <<>> THEN NaN
        ELSE <<SumSeq([i \in DOMAIN present |-> present[i][col][1]]), Len(present)>>

-----------------------------------------------------------------------------
(* historic_data.py: load_df_model, the fusion *)

\* pd.to_datetime(...) without .dt.date: the hour stays in the key
DateOfTimeWithHour(t) == t[1] * 100 + t[2]

\* pd.to_datetime(...).dt.date of an observation time: the hour is dropped
DateOfTime(t) == t[1]

\* df_fire with date, cell_lat, cell_lon, cell_id attached
FireKeyed(fire) ==
    [i \in DOMAIN fire |->
        LET cell == compute_cell_id(fire[i].latitude, fire[i].longitude)
        IN  fire[i] @@ [date |-> fire[i].acq_date, cell_lat |-> cell[1],
                        cell_lon |-> cell[2], cell_id |-> cell[3]]]

\* df_fire.groupby(['date', 'cell_id']).agg(frp_max=('frp', 'max')).reset_index()
FireGrouped(fire) ==
    LET df   == FireKeyed(fire)
        keys == GroupKeys(df)
    IN  [g \in DOMAIN keys |->
            LET rows == GroupOf(df, keys[g])
            IN  [date |-> keys[g][1], cell_id |-> keys[g][2],
                 frp_max |-> MaxOf({rows[i].frp : i \in DOMAIN rows})]]

\* df_meteo with date, cell_lat, cell_lon, cell_id attached
MeteoKeyed(meteo) ==
    [i \in DOMAIN meteo |->
        LET cell == compute_cell_id(meteo[i].latitude, meteo[i].longitude)
        IN  meteo[i] @@ [date |-> DateOfTime(meteo[i].time), cell_lat |-> CoordCell(cell[1]),
                         cell_lon |-> CoordCell(cell[2]), cell_id |-> cell[3]]]

\* an aggregation of the feature columns alone
MeteoFeaturesOnly == FeatureSet

\* the numeric columns df_meteo may hold, of which .mean(numeric_only=True)
\* aggregates those it does hold
MeteoNumeric == {"latitude", "longitude", "cell_lat", "cell_lon"} \cup FeatureSet

\* df_meteo.groupby(['date', 'cell_id']).mean(numeric_only=True).reset_index()
MeteoGrouped(meteo) ==
    LET df   == [i \in DOMAIN meteo |->
                    [MeteoKeyed(meteo)[i] EXCEPT !.latitude = CoordCell(@),
                                                 !.longitude = CoordCell(@)]]
        keys == GroupKeys(df)
    IN  [g \in DOMAIN keys |->
            LET rows == GroupOf(df, keys[g])
            IN  [date |-> keys[g][1], cell_id |-> keys[g][2]]
                @@ [c \in MeteoNumeric \cap DOMAIN rows[1] |-> MeanOf(rows, c)]]

\* the merge with how='inner': left rows without a match are dropped
MergeInner(left, right) ==
    Flatten([i \in DOMAIN left |->
        LET hits == SelectSeq(right, LAMBDA r : KeyOf(r) = KeyOf(left[i]))
        IN  [j \in DOMAIN hits |-> left[i] @@ [frp_max |-> Num(hits[j].frp_max)]]])

\* pd.merge(left, right, on=['date', 'cell_id'], how='left'): every left row,
\* once per matching right row, or once with frp_max missing
MergeLeft(left, right) ==
    Flatten([i \in DOMAIN left |->
        LET hits == SelectSeq(right, LAMBDA r : KeyOf(r) = KeyOf(left[i]))
        IN  IF hits = <<>> THEN <<left[i] @@ [frp_max |-> NaN]>>
            ELSE [j \in DOMAIN hits |-> left[i] @@ [frp_max |-> Num(hits[j].frp_max)]]])

\* a fillna that marks the missing frp_max with the sentinel -1
FillNaSentinel(c, v) == IF IsNull(c) THEN -1000 ELSE c[1]

\* df_model['frp_max'].fillna(0)
FillNa(c, v) == IF IsNull(c) THEN v ELSE c[1]

\* classify_frp applied before the fillna: a missing frp_max is neither == 0
\* nor < 10, and falls into class 2
LabelledBeforeFill(fire, meteo) ==
    LET merged == MergeLeft(MeteoGrouped(meteo), FireGrouped(fire))
    IN  [i \in DOMAIN merged |->
            LET frp == FillNa(merged[i].frp_max, 0)
            IN  [merged[i] EXCEPT !.frp_max = frp]
                @@ [fire_class |-> IF IsNull(merged[i].frp_max) THEN 2
                                   ELSE classify_frp(frp)]]

\* lines 111-118: the merged table with frp_max filled and fire_class assigned
Labelled(fire, meteo) ==
    LET merged == MergeLeft(MeteoGrouped(meteo), FireGrouped(fire))
    IN  [i \in DOMAIN merged |->
            LET frp == FillNa(merged[i].frp_max, 0)
            IN  [merged[i] EXCEPT !.frp_max = frp] @@ [fire_class |-> classify_frp(frp)]]

-----------------------------------------------------------------------------
(* historic_data.py: replace_with_class_means, the augmentor *)

\* round(v, 2) of a value of v ten-thousandths, in hundredths (ties to even)
Round2(v) ==
    LET q == v \div 100
        r == v % 100
    IN  IF r > 50 \/ (r = 50 /\ q % 2 = 1) THEN q + 1 ELSE q

\* scale = noise_std * mean_val, in ten-thousandths (mean in hundredths)
NoiseScale(mean_val) == NoiseStd * mean_val

\* mean_val + noise for a draw of z half deviations, in ten-thousandths
Synthetic(mean_val, z) == mean_val * 100 + (z * NoiseScale(mean_val)) \div 2

\* the loop of replace_with_class_means leaving the column sst as it was
replace_all_but_sst(row, draws) ==
    [c \in DOMAIN row \cup FeatureSet |->
        IF c \in FeatureSet \ {"sst"}
        THEN Num(Round2(Synthetic(FIRE_CLASS_MEANS[row.fire_class][c], draws[c])))
        ELSE row[c]]

\* an augmentor that also resets frp_max
replace_with_class_means_and_frp(row, draws) ==
    [c \in DOMAIN row \cup FeatureSet |->
        IF c \in FeatureSet
        THEN Num(Round2(Synthetic(FIRE_CLASS_MEANS[row.fire_class][c], draws[c])))
        ELSE IF c = "frp_max" THEN 0
        ELSE row[c]]

\* an augmentor of the values present: a missing aggregated value stays missing
replace_present_only(row, draws) ==
    [c \in DOMAIN row |->
        IF c \in FeatureSet /\ ~IsNull(row[c])
        THEN Num(Round2(Synthetic(FIRE_CLASS_MEANS[row.fire_class][c], draws[c])))
        ELSE row[c]]

\* an imputation-only augmentor: a real aggregated value is kept
replace_only_missing(row, draws) ==
    [c \in DOMAIN row \cup FeatureSet |->
        IF c \in FeatureSet /\ IsNull(row[c])
        THEN Num(Round2(Synthetic(FIRE_CLASS_MEANS[row.fire_class][c], draws[c])))
        ELSE row[c]]

\* one call of replace_with_class_means on a row, drawing the noise `draws`
replace_with_class_means(row, draws) ==
    [c \in DOMAIN row \cup FeatureSet |->
        IF c \in FeatureSet
        THEN Num(Round2(Synthetic(FIRE_CLASS_MEANS[row.fire_class][c], draws[c])))
        ELSE row[c]]

\* df_model.apply(replace_with_class_means, axis=1) with the draws of each row
Augmented(df, noise) ==
    [i \in DOMAIN df |-> replace_with_class_means(df[i], noise[i])]

-----------------------------------------------------------------------------
(* The fusion run *)

\* no call of classify_frp is modelled in this run
ClassifyIdle == frp_arg = 0 /\ frp_class = -1

\* no fusion is modelled in this run
FusionIdle ==
    /\ fire_csv = <<>>
    /\ meteo_csv = <<>>
    /\ df_model = <<>>
    /\ fusion_pc = "idle"

\* the input files: at most MaxRows distinct rows over both
FusionInit ==
    /\ \E F \in KSubsets(FireRows, MaxRows) :
          \E M \in KSubsets(MeteoRows, MaxRows - Cardinality(F)) :
              /\ fire_csv = SetToSeq(F)
              /\ meteo_csv = SetToSeq(M)
    /\ df_model = <<>>
    /\ fusion_pc = "start"

\* a file of rows lacks one of the columns: the header of a file is the
\* columns of its rows
LacksColumn(rows, cols) == rows # <<>> /\ ~(cols \subseteq DOMAIN rows[1])

\* the columns load_df_model reads by name from the fire file (lines 92, 94,
\* 98) and from the meteorological file (lines 103, 105)
FireColumnsRead == {"acq_date", "latitude", "longitude", "frp"}

MeteoColumnsRead == {"time", "latitude", "longitude"}

\* reading a column that is not there is a KeyError
LoadKeyError(fire, meteo) ==
    LacksColumn(fire, FireColumnsRead) \/ LacksColumn(meteo, MeteoColumnsRead)

\* a try/except in load_df_model that returns an empty table on a failure
LoadDfModelReturnsEmpty ==
    /\ fusion_pc = "start"
    /\ fire_csv = <<>> \/ meteo_csv = <<>> \/ LoadKeyError(fire_csv, meteo_csv)
    /\ fusion_pc' = "done"
    /\ UNCHANGED <<fire_csv, meteo_csv, df_model, classifyVars, forecastVars, splitVars, restVars>>

\* load_df_model returns: the labelled table with every row augmented
LoadDfModel ==
    /\ fusion_pc = "start"
    /\ fire_csv # <<>>
    /\ meteo_csv # <<>>
    /\ ~LoadKeyError(fire_csv, meteo_csv)
    /\ LET df == Labelled(fire_csv, meteo_csv)
       IN  \E noise \in [DOMAIN df -> NoiseVectors] :
              df_model' = Augmented(df, noise)
    /\ fusion_pc' = "done"
    /\ UNCHANGED <<fire_csv, meteo_csv, classifyVars, forecastVars, splitVars, restVars>>

\* load_df_model raises: on a file of no rows df.apply(..., axis=1) returns a
\* copy of the empty frame with all its columns, and assigning it to the three
\* cell columns (line 93 or 104) is a ValueError; on a file without a column
\* the function reads, the KeyError of that read
LoadDfModelRaises ==
    /\ fusion_pc = "start"
    /\ fire_csv = <<>> \/ meteo_csv = <<>> \/ LoadKeyError(fire_csv, meteo_csv)
    /\ fusion_pc' = "failed"
    /\ UNCHANGED <<fire_csv, meteo_csv, df_model, classifyVars, forecastVars, splitVars, restVars>>

\* no forecast is modelled in this run
ForecastIdle ==
    /\ forecast_csv = <<>>
    /\ today = 0
    /\ df_meteo = <<>>
    /\ df_features = <<>>
    /\ features_columns = <<>>
    /\ clf = "none"
    /\ predictions_csv = <<>>
    /\ forecast_pc = "idle"

\* no call of split_and_resample is modelled in this run
SplitIdle ==
    /\ y = <<>>
    /\ train = <<>>
    /\ test = <<>>
    /\ train_resampled = <<>>
    /\ split_pc = "idle"

\* no call of prepare_data is modelled in this run
PrepareIdle == prepared = <<>> /\ prepare_pc = "idle"

\* no call of compute_cell_id by itself is modelled in this run
CellIdle ==
    /\ point = <<0, 0>>
    /\ point_cell = <<>>
    /\ cell_cell = <<>>
    /\ cell_pc = "idle"

\* historic_data.main is not modelled in this run
HistoricIdle == fused_csv = <<>> /\ historic_pc = "idle"

\* train_and_return_model is not modelled in this run
TrainIdle == train_pc = "idle"

\* no pair of runs is modelled in this run
RunsIdle ==
    /\ entropy = <<>>
    /\ run_pc = <<>>
    /\ run_split = <<>>
    /\ run_resampled = <<>>
    /\ run_clf = <<>>
    /\ run_df_model = <<>>
    /\ run_fusion_pc = <<>>

\* predictive_model.main is not modelled in this run
ModelIdle == model_pc = "idle" /\ y_pred = <<>>

\* no second call of remap_time_column is modelled in this run
AgainIdle == again_pc = "idle" /\ day_again = 0 /\ df_again = <<>>

RestIdle ==
    /\ PrepareIdle
    /\ CellIdle
    /\ HistoricIdle
    /\ TrainIdle
    /\ RunsIdle
    /\ ModelIdle
    /\ AgainIdle

Init == FusionInit /\ ClassifyIdle /\ ForecastIdle /\ SplitIdle /\ RestIdle

Next == LoadDfModel \/ LoadDfModelRaises

\* one run of load_df_model on arbitrary input files
Spec == Init /\ [][Next]_vars

-----------------------------------------------------------------------------
(* A call of classify_frp *)

FrpArgs == -10..MaxFrpArg

ClassifyInit ==
    /\ frp_arg \in FrpArgs
    /\ frp_class = -1
    /\ FusionIdle
    /\ ForecastIdle
    /\ SplitIdle
    /\ RestIdle

ClassifyFrp ==
    /\ frp_class = -1
    /\ frp_class' = classify_frp(frp_arg)
    /\ UNCHANGED <<frp_arg, fusionVars, forecastVars, splitVars, restVars>>

ClassifyNext == ClassifyFrp

\* one call of classify_frp on an arbitrary frp
SpecClassify == ClassifyInit /\ [][ClassifyNext]_vars

-----------------------------------------------------------------------------
(* predictions.py: the forecast run *)

\* timestamps of the forecast file, in hours: two of the same day, one later
ForecastTimes == {24, 36, 48}

\* feature vectors of a forecast row: complete (low), complete (high), cvh missing
ForecastVectors ==
    { [c \in FeatureSet |-> Num(100)],
      [c \in FeatureSet |-> Num(500)],
      [c \in FeatureSet |-> IF c = "cvh" THEN NaN ELSE Num(500)] }

\* the rows of the forecast file: a time, the coordinates of a point and the
\* features
ForecastRows ==
    {[time |-> t, latitude |-> 3690, longitude |-> -11940] @@ fv :
        t \in ForecastTimes, fv \in ForecastVectors}

\* the days a run may take place on
RunDays == {100, 101}

\* The fitted forest is an opaque function of the feature vector; the model
\* keeps two decision functions.
Classifiers == {"by_u10", "by_t2m"}

\* model.predict on one feature vector
Predict(model, x) ==
    IF model = "by_u10" THEN (IF x.u10[1] >= 400 THEN 2 ELSE 0)
    ELSE (IF x.t2m[1] >= 400 THEN 1 ELSE 0)

RECURSIVE SeqsUpTo(_, _)
SeqsUpTo(S, n) ==
    IF n = 0 THEN {<<>>}
    ELSE LET shorter == SeqsUpTo(S, n - 1)
         IN  shorter \cup {Append(q, x) : q \in shorter, x \in S}

\* pd.read_csv: the rows under a RangeIndex 0..n-1 (column "index")
ReadCsv(rows) == [i \in DOMAIN rows |-> rows[i] @@ [index |-> i - 1]]

\* load_meteorological_data
load_meteorological_data(rows) == ReadCsv(rows)

\* the distinct times in the order of their first appearance, unsorted
RECURSIVE UniqueInOrder(_)
UniqueInOrder(times) ==
    IF times = <<>> THEN <<>>
    ELSE LET rest == UniqueInOrder(SubSeq(times, 1, Len(times) - 1))
             last == times[Len(times)]
         IN  IF \E i \in DOMAIN rest : rest[i] = last THEN rest ELSE Append(rest, last)

RECURSIVE SortInts(_)
SortInts(S) ==
    IF S = {} THEN <<>>
    ELSE LET m == CHOOSE a \in S : \A b \in S : a <= b
         IN  <<m>> \o SortInts(S \ {m})

\* sorted(df['time'].unique())
UniqueSorted(times) == SortInts({times[i] : i \in DOMAIN times})

\* the distinct times mapped to the days from start_date on, latest first
remap_time_column_descending(df, start_date) ==
    LET unique_times == UniqueSorted([i \in DOMAIN df |-> df[i].time])
        time_map == [t \in {unique_times[i] : i \in DOMAIN unique_times} |->
                        start_date + Len(unique_times)
                            - (CHOOSE i \in DOMAIN unique_times : unique_times[i] = t)]
    IN  [i \in DOMAIN df |-> [df[i] EXCEPT !.time = time_map[@]]]

\* remap_time_column: time_map sends the i-th distinct time to start_date + i
remap_time_column(df, start_date) ==
    LET unique_times == UniqueSorted([i \in DOMAIN df |-> df[i].time])
        time_map == [t \in {unique_times[i] : i \in DOMAIN unique_times} |->
                        start_date + (CHOOSE i \in DOMAIN unique_times :
                                          unique_times[i] = t) - 1]
    IN  [i \in DOMAIN df |-> [df[i] EXCEPT !.time = time_map[@]]]

\* df[feature_cols].dropna(): the feature columns of the complete rows, under
\* the index labels of these rows
prepare_features(df, feature_cols) ==
    LET cols == {feature_cols[i] : i \in DOMAIN feature_cols}
        kept == SelectSeq(df, LAMBDA r : \A c \in cols : ~IsNull(r[c]))
    IN  [i \in DOMAIN kept |-> [c \in cols \cup {"index"} |-> kept[i][c]]]

\* the columns in the reverse of the order asked for
prepare_features_columns_reversed(df, feature_cols) ==
    [j \in DOMAIN feature_cols |-> feature_cols[Len(feature_cols) + 1 - j]]

\* df[feature_cols].dropna().columns: the columns asked for, in that order
prepare_features_columns(df, feature_cols) == feature_cols

\* the predictions written by position: the k-th prediction to the k-th row
add_predictions_by_position(df, features, model) ==
    [i \in DOMAIN df |->
        df[i] @@ [fire_prediction |->
            IF i <= Len(features) THEN Num(Predict(model, features[i])) ELSE NaN]]

\* the table cut down to the rows that got a prediction
add_predictions_of_valid_rows(df, features, model) ==
    LET valid_indices == [k \in DOMAIN features |-> features[k].index]
        kept == SelectSeq(df, LAMBDA r :
                    \E k \in DOMAIN valid_indices : valid_indices[k] = r.index)
    IN  [i \in DOMAIN kept |->
            kept[i] @@ [fire_prediction |->
                Num(Predict(model, features[CHOOSE k \in DOMAIN valid_indices :
                                               valid_indices[k] = kept[i].index]))]]

\* add_predictions: df.loc[valid_indices, 'fire_prediction'] = predictions
add_predictions(df, features, model) ==
    LET valid_indices == [k \in DOMAIN features |-> features[k].index]
        predictions == [k \in DOMAIN features |-> Predict(model, features[k])]
    IN  [i \in DOMAIN df |->
            df[i] @@ [fire_prediction |->
                IF \E k \in DOMAIN valid_indices : valid_indices[k] = df[i].index
                THEN Num(predictions[CHOOSE k \in DOMAIN valid_indices :
                                         valid_indices[k] = df[i].index])
                ELSE NaN]]

ForecastInit ==
    /\ forecast_csv \in SeqsUpTo(ForecastRows, MaxForecastRows)
    /\ today \in RunDays
    /\ df_meteo = <<>>
    /\ df_features = <<>>
    /\ features_columns = <<>>
    /\ clf = "none"
    /\ predictions_csv = <<>>
    /\ forecast_pc = "start"
    /\ FusionIdle
    /\ ClassifyIdle
    /\ SplitIdle
    /\ RestIdle

\* main, line 92: df['time'] of a file without that column is a KeyError
LoadMeteorologicalDataRaises ==
    /\ forecast_pc = "start"
    /\ LacksColumn(forecast_csv, {"time"})
    /\ forecast_pc' = "failed"
    /\ UNCHANGED <<forecast_csv, today, df_meteo, df_features, features_columns, clf, predictions_csv,
                   fusionVars, classifyVars, splitVars, restVars>>

\* main, line 92
LoadMeteorologicalData ==
    /\ forecast_pc = "start"
    /\ ~LacksColumn(forecast_csv, {"time"})
    /\ df_meteo' = load_meteorological_data(forecast_csv)
    /\ forecast_pc' = "loaded"
    /\ UNCHANGED <<forecast_csv, today, df_features, features_columns, clf, predictions_csv,
                   fusionVars, classifyVars, splitVars, restVars>>

\* main, line 93
RemapTimeColumn ==
    /\ forecast_pc = "loaded"
    /\ df_meteo' = remap_time_column(df_meteo, today)
    /\ forecast_pc' = "remapped"
    /\ UNCHANGED <<forecast_csv, today, df_features, features_columns, clf, predictions_csv,
                   fusionVars, classifyVars, splitVars, restVars>>

\* main, line 95: df[feature_cols] without one of these columns is a KeyError
PrepareFeaturesRaises ==
    /\ forecast_pc = "remapped"
    /\ LacksColumn(df_meteo, FeatureSet)
    /\ forecast_pc' = "failed"
    /\ UNCHANGED <<forecast_csv, today, df_meteo, df_features, features_columns, clf, predictions_csv,
                   fusionVars, classifyVars, splitVars, restVars>>

\* main, line 95
PrepareFeatures ==
    /\ forecast_pc = "remapped"
    /\ ~LacksColumn(df_meteo, FeatureSet)
    /\ df_features' = prepare_features(df_meteo, predictive_model_FEATURE_COLUMNS)
    /\ features_columns' = prepare_features_columns(df_meteo, predictive_model_FEATURE_COLUMNS)
    /\ forecast_pc' = "prepared"
    /\ UNCHANGED <<forecast_csv, today, df_meteo, clf, predictions_csv,
                   fusionVars, classifyVars, splitVars, restVars>>

\* main, line 96: train_and_return_model returns a fitted classifier
TrainAndReturnModel ==
    /\ forecast_pc = "prepared"
    /\ clf' \in Classifiers
    /\ forecast_pc' = "trained"
    /\ UNCHANGED <<forecast_csv, today, df_meteo, df_features, features_columns, predictions_csv,
                   fusionVars, classifyVars, splitVars, restVars>>

\* main, line 97
AddPredictions ==
    /\ forecast_pc = "trained"
    /\ df_features # <<>>
    /\ df_meteo' = add_predictions(df_meteo, df_features, clf)
    /\ forecast_pc' = "predicted"
    /\ UNCHANGED <<forecast_csv, today, df_features, features_columns, clf, predictions_csv,
                   fusionVars, classifyVars, splitVars, restVars>>

\* main, line 97: model.predict refuses a matrix of no rows and raises
AddPredictionsRaises ==
    /\ forecast_pc = "trained"
    /\ df_features = <<>>
    /\ forecast_pc' = "failed"
    /\ UNCHANGED <<forecast_csv, today, df_meteo, df_features, features_columns, clf, predictions_csv,
                   fusionVars, classifyVars, splitVars, restVars>>

\* main, line 99: save_forecast writes the table without its index
SaveForecast ==
    /\ forecast_pc = "predicted"
    /\ predictions_csv' =
          [i \in DOMAIN df_meteo |->
              [c \in DOMAIN df_meteo[i] \ {"index"} |-> df_meteo[i][c]]]
    /\ forecast_pc' = "saved"
    /\ UNCHANGED <<forecast_csv, today, df_meteo, df_features, features_columns, clf,
                   fusionVars, classifyVars, splitVars, restVars>>

ForecastNext ==
    \/ LoadMeteorologicalData
    \/ RemapTimeColumn
    \/ PrepareFeatures
    \/ TrainAndReturnModel
    \/ AddPredictions
    \/ AddPredictionsRaises
    \/ SaveForecast

\* one run of predictions.main on an arbitrary forecast file
SpecForecast == ForecastInit /\ [][ForecastNext]_vars

\* the forecast file loaded and remapped, and remap_time_column due a second
\* time on what it returned
RemapInit ==
    /\ forecast_csv \in SeqsUpTo(ForecastRows, MaxForecastRows)
    /\ today \in RunDays
    /\ df_meteo = <<>>
    /\ df_features = <<>>
    /\ features_columns = <<>>
    /\ clf = "none"
    /\ predictions_csv = <<>>
    /\ forecast_pc = "start"
    /\ again_pc = "start"
    /\ day_again = 0
    /\ df_again = <<>>
    /\ FusionIdle
    /\ ClassifyIdle
    /\ SplitIdle
    /\ PrepareIdle
    /\ CellIdle
    /\ HistoricIdle
    /\ TrainIdle
    /\ RunsIdle
    /\ ModelIdle

\* remap_time_column, lines 35-40, applied to its own output, on the day of
\* the first call or on the day after it
RemapTimeColumnAgain ==
    /\ forecast_pc = "remapped"
    /\ again_pc = "start"
    /\ \E start_date \in {today, today + 1} :
          /\ day_again' = start_date
          /\ df_again' = remap_time_column(df_meteo, start_date)
    /\ again_pc' = "done"
    /\ UNCHANGED <<fusionVars, classifyVars, forecastVars, splitVars, prepareVars,
                   cellVars, historicVars, trainVars, runsVars, modelVars>>

RemapNext ==
    \/ LoadMeteorologicalData
    \/ RemapTimeColumn
    \/ RemapTimeColumnAgain

\* remap_time_column applied twice to an arbitrary forecast table
SpecRemap == RemapInit /\ [][RemapNext]_vars

-----------------------------------------------------------------------------
(* predictive_model.py: split_and_resample *)

Classes == {0, 1, 2}

\* a label vector with the given number of rows of each class
LabelVector(n0, n1, n2) ==
    [i \in 1..(n0 + n1 + n2) |-> IF i <= n0 THEN 0 ELSE IF i <= n0 + n1 THEN 1 ELSE 2]

LabelVectors ==
    { LabelVector(n0, n1, n2) :
        n0 \in 0..MaxSamples, n1 \in 0..MaxSamples, n2 \in 0..MaxSamples }

\* the rows of (X, y)
Samples(labels) ==
    [i \in DOMAIN labels |-> [id |-> i, label |-> labels[i], synthetic |-> FALSE]]

CountOf(rows, c) == Cardinality({i \in DOMAIN rows : rows[i].label = c})

ClassesIn(rows) == {rows[i].label : i \in DOMAIN rows}

ClassCounts(rows) == [c \in ClassesIn(rows) |-> CountOf(rows, c)]

RECURSIVE SumOver(_, _)
SumOver(f, S) ==
    IF S = {} THEN 0
    ELSE LET c == CHOOSE x \in S : TRUE IN f[c] + SumOver(f, S \ {c})

\* n_test = ceil(test_size * n_samples)
TestCount(n) == (n * TestSize + 99) \div 100

\* a split that ignores the classes (stratify=None): any n_draws of the rows
UnstratifiedAllocations(counts, n_draws) ==
    { a \in [DOMAIN counts -> 0..n_draws] :
        /\ SumOver(a, DOMAIN counts) = n_draws
        /\ \A c \in DOMAIN counts : a[c] <= counts[c] }

\* The stratified allocation of n_draws rows to the classes: the floor of each
\* class's share, and the rows still missing to the classes of the largest
\* remainders, ties broken at random.
StratifiedAllocations(counts, n_draws) ==
    LET total == SumOver(counts, DOMAIN counts)
        floored == [c \in DOMAIN counts |-> (counts[c] * n_draws) \div total]
        rem == [c \in DOMAIN counts |-> (counts[c] * n_draws) % total]
        need == n_draws - SumOver(floored, DOMAIN counts)
    IN  { [c \in DOMAIN counts |-> floored[c] + (IF c \in S THEN 1 ELSE 0)] :
            S \in { T \in SUBSET DOMAIN counts :
                      /\ Cardinality(T) = need
                      /\ \A a \in T : \A b \in (DOMAIN counts) \ T : rem[a] >= rem[b] } }

\* the orders in which the seeded shuffle may list the rows of a class
Shuffles == {"ascending", "descending"}

\* the ids of the rows of class c in the order of the shuffle
RECURSIVE ShuffledIds(_, _)
ShuffledIds(S, shuffle) ==
    IF S = {} THEN <<>>
    ELSE LET m == IF shuffle = "ascending"
                  THEN CHOOSE a \in S : \A b \in S : a <= b
                  ELSE CHOOSE a \in S : \A b \in S : a >= b
         IN  <<m>> \o ShuffledIds(S \ {m}, shuffle)

\* train_test_split refuses the input: no row, a class of a single row, or
\* fewer training or test rows than classes
SplitRefused(rows) ==
    LET n == Len(rows)
        n_test == TestCount(n)
        n_train == n - n_test
    IN  \/ n = 0
        \/ \E c \in ClassesIn(rows) : CountOf(rows, c) < 2
        \/ n_train < Cardinality(ClassesIn(rows))
        \/ n_test < Cardinality(ClassesIn(rows))

\* train_test_split(X, y, test_size=0.2, stratify=y, random_state=42): the
\* pairs <<train, test>> it may return
TrainTestSplits(rows) ==
    LET n == Len(rows)
        n_test == TestCount(n)
        n_train == n - n_test
        counts == ClassCounts(rows)
    IN  { LET ids(c) == ShuffledIds({i \in DOMAIN rows : rows[i].label = c}, sh)
              inTrain == {i \in DOMAIN rows :
                            \E k \in 1..n_i[rows[i].label] : ids(rows[i].label)[k] = i}
          IN  <<SelectSeq(rows, LAMBDA r : r.id \in inTrain),
                SelectSeq(rows, LAMBDA r : r.id \notin inTrain)>> :
            n_i \in StratifiedAllocations(counts, n_train), sh \in Shuffles }

\* the training split handed on without resampling
NotResampled(rows) == rows

\* undersampling: of every class its first rows, as many as the smallest has
Undersampled(rows) ==
    LET smallest == MinOf({CountOf(rows, c) : c \in ClassesIn(rows)})
    IN  SelectSeq(rows, LAMBDA r :
            Cardinality({j \in DOMAIN rows :
                            rows[j].label = r.label /\ rows[j].id <= r.id}) <= smallest)

\* SMOTE refuses the training split: a single class, or a class to oversample
\* with no more rows than k_neighbors
SmoteRefused(rows) ==
    LET largest == MaxOf({CountOf(rows, c) : c \in ClassesIn(rows)})
    IN  \/ Cardinality(ClassesIn(rows)) = 1
        \/ \E c \in ClassesIn(rows) :
              CountOf(rows, c) < largest /\ CountOf(rows, c) <= KNeighbors

\* the synthetic rows added for every class below the largest one
RECURSIVE SyntheticRows(_, _, _)
SyntheticRows(rows, todo, next_id) ==
    IF todo = {} THEN <<>>
    ELSE LET c == CHOOSE a \in todo : \A b \in todo : a <= b
             largest == MaxOf({CountOf(rows, d) : d \in ClassesIn(rows)})
             k == largest - CountOf(rows, c)
         IN  [j \in 1..k |-> [id |-> next_id + j - 1, label |-> c, synthetic |-> TRUE]]
             \o SyntheticRows(rows, todo \ {c}, next_id + k)

\* smote.fit_resample(X_train, y_train): the rows given, followed by the
\* synthetic rows that bring every class to the size of the largest
smote_fit_resample(rows) ==
    rows \o SyntheticRows(rows, ClassesIn(rows), Len(y) + 1)

SplitInit ==
    /\ y \in LabelVectors
    /\ Len(y) <= MaxSamples
    /\ train = <<>>
    /\ test = <<>>
    /\ train_resampled = <<>>
    /\ split_pc = "start"
    /\ FusionIdle
    /\ ClassifyIdle
    /\ ForecastIdle
    /\ RestIdle

\* split_and_resample, lines 56-58
TrainTestSplit ==
    /\ split_pc = "start"
    /\ ~SplitRefused(Samples(y))
    /\ \E pair \in TrainTestSplits(Samples(y)) :
          /\ train' = pair[1]
          /\ test' = pair[2]
    /\ split_pc' = "split"
    /\ UNCHANGED <<y, train_resampled, fusionVars, classifyVars, forecastVars, restVars>>

\* split_and_resample, lines 56-58: the ValueError of train_test_split
TrainTestSplitRaises ==
    /\ split_pc = "start"
    /\ SplitRefused(Samples(y))
    /\ split_pc' = "failed"
    /\ UNCHANGED <<y, train, test, train_resampled, fusionVars, classifyVars, forecastVars, restVars>>

\* split_and_resample, lines 59-61
SmoteFitResample ==
    /\ split_pc = "split"
    /\ ~SmoteRefused(train)
    /\ train_resampled' = smote_fit_resample(train)
    /\ split_pc' = "returned"
    /\ UNCHANGED <<y, train, test, fusionVars, classifyVars, forecastVars, restVars>>

\* split_and_resample, lines 59-60: the ValueError of SMOTE
SmoteFitResampleRaises ==
    /\ split_pc = "split"
    /\ SmoteRefused(train)
    /\ split_pc' = "failed"
    /\ UNCHANGED <<y, train, test, train_resampled, fusionVars, classifyVars, forecastVars, restVars>>

SplitNext ==
    \/ TrainTestSplit
    \/ TrainTestSplitRaises
    \/ SmoteFitResample
    \/ SmoteFitResampleRaises

\* one call of split_and_resample on an arbitrary label vector
SpecSplit == SplitInit /\ [][SplitNext]_vars

-----------------------------------------------------------------------------
(* predictive_model.py: prepare_data *)

\* number of rows of the table given to prepare_data
MaxPrepareRows == 3

\* a table under the RangeIndex 0..n-1 (column "index") that pd.merge and
\* DataFrame.apply of load_df_model leave it with
RangeIndexed(df) == [i \in DOMAIN df |-> df[i] @@ [index |-> i - 1]]

\* df[feature_cols].dropna(): the columns feature_cols in that order, and of
\* the rows the complete ones, each under its index label
DropNa(df, feature_cols) ==
    LET cols == {feature_cols[i] : i \in DOMAIN feature_cols}
        kept == SelectSeq(df, LAMBDA r : \A c \in cols : ~IsNull(r[c]))
    IN  [columns |-> feature_cols,
         rows |-> [i \in DOMAIN kept |-> [c \in cols \cup {"index"} |-> kept[i][c]]]]

\* df.loc[labels, col]: the cells of column col of the rows with these index
\* labels, under these labels
Loc(df, labels, col) ==
    [k \in DOMAIN labels |->
        [index |-> labels[k],
         value |-> df[CHOOSE i \in DOMAIN df : df[i].index = labels[k]][col]]]

\* prepare_data with y = df['fire_class'], not aligned to the rows of X
prepare_data_unaligned(df, feature_cols) ==
    LET indexed == RangeIndexed(df)
    IN  <<DropNa(indexed, feature_cols),
          [i \in DOMAIN indexed |->
              [index |-> indexed[i].index, value |-> indexed[i].fire_class]]>>

\* prepare_data: <<X, y>>
prepare_data(df, feature_cols) ==
    LET indexed == RangeIndexed(df)
        X == DropNa(indexed, feature_cols)
    IN  <<X, Loc(indexed, [k \in DOMAIN X.rows |-> X.rows[k].index], "fire_class")>>

\* feature vectors of a row of the table: complete ones and one without sst
PrepareVectors ==
    { [c \in FeatureSet |-> Num(100)],
      [c \in FeatureSet |-> IF c = "sst" THEN NaN ELSE Num(300)] }

PrepareRows == {[date |-> 1, fire_class |-> k] @@ fv : k \in Classes, fv \in PrepareVectors}

PrepareInit ==
    /\ df_model \in SeqsUpTo(PrepareRows, MaxPrepareRows)
    /\ fire_csv = <<>>
    /\ meteo_csv = <<>>
    /\ fusion_pc = "done"
    /\ prepared = <<>>
    /\ prepare_pc = "start"
    /\ CellIdle
    /\ HistoricIdle
    /\ TrainIdle
    /\ RunsIdle
    /\ ModelIdle
    /\ AgainIdle
    /\ ClassifyIdle
    /\ ForecastIdle
    /\ SplitIdle

\* train_and_return_model, line 106: X, y = prepare_data(df_model, FEATURE_COLUMNS)
PrepareData ==
    /\ prepare_pc = "start"
    /\ fusion_pc = "done"
    /\ prepared' = prepare_data(df_model, predictive_model_FEATURE_COLUMNS)
    /\ prepare_pc' = "done"
    /\ UNCHANGED <<fusionVars, classifyVars, forecastVars, splitVars, cellVars, historicVars,
                   trainVars, runsVars, modelVars, againVars>>

PrepareNext == PrepareData

\* one call of prepare_data on an arbitrary table
SpecPrepare == PrepareInit /\ [][PrepareNext]_vars

\* train_and_return_model, lines 105-106, on arbitrary input files
FusedPrepareInit ==
    /\ FusionInit
    /\ prepared = <<>>
    /\ prepare_pc = "start"
    /\ ClassifyIdle
    /\ ForecastIdle
    /\ SplitIdle
    /\ CellIdle
    /\ HistoricIdle
    /\ TrainIdle
    /\ RunsIdle
    /\ ModelIdle
    /\ AgainIdle

FusedPrepareNext ==
    \/ LoadDfModel
    \/ LoadDfModelRaises
    \/ PrepareData

\* load_df_model followed by prepare_data on its output
SpecFusedPrepare == FusedPrepareInit /\ [][FusedPrepareNext]_vars

-----------------------------------------------------------------------------
(* Calls of compute_cell_id by itself *)

\* largest latitude, in hundredths of a degree either side of 0, the function
\* is called with
MaxLatArg == 100

\* latitudes around the equator and the two of the fusion runs
LatArgs == (-MaxLatArg .. MaxLatArg) \cup Lats

\* -119.40, -119.35 and 0.35
LonArgs == {-11940, -11935, 35}

CellInit ==
    /\ point \in LatArgs \X LonArgs
    /\ point_cell = <<>>
    /\ cell_cell = <<>>
    /\ cell_pc = "start"
    /\ PrepareIdle
    /\ HistoricIdle
    /\ TrainIdle
    /\ RunsIdle
    /\ ModelIdle
    /\ AgainIdle
    /\ FusionIdle
    /\ ClassifyIdle
    /\ ForecastIdle
    /\ SplitIdle

\* compute_cell_id(lat, lon) with the default cell_size
ComputeCellId ==
    /\ cell_pc = "start"
    /\ point_cell' = compute_cell_id(point[1], point[2])
    /\ cell_pc' = "returned"
    /\ UNCHANGED <<point, cell_cell, fusionVars, classifyVars, forecastVars, splitVars,
                   prepareVars, historicVars, trainVars, runsVars, modelVars, againVars>>

\* compute_cell_id(cell_lat, cell_lon) on the cell coordinates the first call
\* returned (multiples of 0.1, so whole hundredths)
ComputeCellIdOfCell ==
    /\ cell_pc = "returned"
    /\ cell_cell' = compute_cell_id(point_cell[1] \div 10, point_cell[2] \div 10)
    /\ cell_pc' = "reapplied"
    /\ UNCHANGED <<point, point_cell, fusionVars, classifyVars, forecastVars, splitVars,
                   prepareVars, historicVars, trainVars, runsVars, modelVars, againVars>>

CellNext == ComputeCellId \/ ComputeCellIdOfCell

\* compute_cell_id on an arbitrary point, and again on the cell it returned
SpecCell == CellInit /\ [][CellNext]_vars

-----------------------------------------------------------------------------
(* The end-to-end scenario: one detection, observations of the same place and day *)

\* number of meteorological observations of the scenario
MaxScenarioObs == 2

\* 36.70 and 36.80
ScenarioLats == {3670, 3680}

\* frp of the detection, thousandths: 0, 5 and 15
ScenarioFrp == {0, 5000, 15000}

\* the observations at a place on a day, with arbitrary feature values
ScenarioObs(la, lo, d) ==
    { [latitude |-> la, longitude |-> lo, time |-> t] @@ fv :
        t \in {u \in Times : u[1] = d}, fv \in FeatureVectors }

ScenarioInit ==
    /\ \E la \in ScenarioLats, lo \in Lons, d \in Days, f \in ScenarioFrp :
          /\ fire_csv = <<[latitude |-> la, longitude |-> lo, acq_date |-> d, frp |-> f]>>
          /\ \E M \in KSubsets(ScenarioObs(la, lo, d), MaxScenarioObs) :
                /\ M # {}
                /\ meteo_csv = SetToSeq(M)
    /\ df_model = <<>>
    /\ fusion_pc = "start"
    /\ ClassifyIdle
    /\ ForecastIdle
    /\ SplitIdle
    /\ RestIdle

ScenarioNext == LoadDfModel

\* one run of load_df_model on the files of the scenario
SpecScenario == ScenarioInit /\ [][ScenarioNext]_vars

-----------------------------------------------------------------------------
(* The fusion run on a fire file whose frp column holds any number *)

\* total number of rows in the two input files
MaxSignedRows == 3

\* frp values, thousandths: -1, 0 and 5
SignedFrp == {-1000, 0, 5000}

SignedFireRows ==
    [latitude : Lats, longitude : Lons, acq_date : Days, frp : SignedFrp]

SignedMeteoRows ==
    { [latitude |-> la, longitude |-> lo, time |-> t] @@ [c \in FeatureSet |-> Num(100)] :
        la \in Lats, lo \in Lons, t \in Times }

SignedInit ==
    /\ \E F \in KSubsets(SignedFireRows, MaxSignedRows) :
          \E M \in KSubsets(SignedMeteoRows, MaxSignedRows - Cardinality(F)) :
              /\ fire_csv = SetToSeq(F)
              /\ meteo_csv = SetToSeq(M)
    /\ df_model = <<>>
    /\ fusion_pc = "start"
    /\ ClassifyIdle
    /\ ForecastIdle
    /\ SplitIdle
    /\ RestIdle

SignedNext == LoadDfModel \/ LoadDfModelRaises

\* one run of load_df_model on a fire file with frp of either sign
SpecSigned == SignedInit /\ [][SignedNext]_vars

-----------------------------------------------------------------------------
(* The fusion run on files with missing coordinates *)

\* total number of rows in the two input files
MaxNanRows == 3

\* a latitude is missing or 36.80; a longitude is missing, -119.40 or -119.30
NanLats == {NanCoord, 3680}

NanLons == {NanCoord, -11940, -11930}

NanFireRows ==
    [latitude : NanLats, longitude : NanLons, acq_date : {1}, frp : {5000, 15000}]

NanMeteoRows ==
    { [latitude |-> la, longitude |-> lo, time |-> t] @@ [c \in FeatureSet |-> Num(100)] :
        la \in NanLats, lo \in NanLons, t \in {<<1, 0>>, <<2, 0>>} }

NanInit ==
    /\ \E F \in KSubsets(NanFireRows, MaxNanRows) :
          \E M \in KSubsets(NanMeteoRows, MaxNanRows - Cardinality(F)) :
              /\ fire_csv = SetToSeq(F)
              /\ meteo_csv = SetToSeq(M)
    /\ df_model = <<>>
    /\ fusion_pc = "start"
    /\ ClassifyIdle
    /\ ForecastIdle
    /\ SplitIdle
    /\ RestIdle

NanNext == LoadDfModel \/ LoadDfModelRaises

\* one run of load_df_model on files with missing coordinates
SpecNan == NanInit /\ [][NanNext]_vars

-----------------------------------------------------------------------------
(* predictive_model.py: train_and_return_model from line 107 on *)

\* X, y of line 106 are arbitrary; the call of split_and_resample is due
TrainInit ==
    /\ y \in LabelVectors
    /\ Len(y) <= MaxSamples
    /\ train = <<>>
    /\ test = <<>>
    /\ train_resampled = <<>>
    /\ split_pc = "start"
    /\ train_pc = "running"
    /\ FusionIdle
    /\ ClassifyIdle
    /\ ForecastIdle
    /\ PrepareIdle
    /\ CellIdle
    /\ HistoricIdle
    /\ RunsIdle
    /\ ModelIdle
    /\ AgainIdle

\* a try/except around the training that hands back the unfitted classifier
TrainAndReturnModelSwallows ==
    /\ train_pc = "running"
    /\ fusion_pc = "failed" \/ split_pc = "failed"
    /\ clf' = "unfitted"
    /\ train_pc' = "returned"
    /\ UNCHANGED <<forecast_csv, today, df_meteo, df_features, features_columns, predictions_csv, forecast_pc,
                   fusionVars, classifyVars, splitVars, prepareVars, cellVars, historicVars, runsVars,
                   modelVars, againVars>>

\* train_and_return_model, lines 105-107: load_df_model or split_and_resample
\* raised; there is no try/except, the function raises in turn
TrainAndReturnModelRaises ==
    /\ train_pc = "running"
    /\ fusion_pc = "failed" \/ split_pc = "failed"
    /\ train_pc' = "raised"
    /\ UNCHANGED <<forecastVars, fusionVars, classifyVars, splitVars, prepareVars, cellVars,
                   historicVars, runsVars, modelVars, againVars>>

\* train_and_return_model, lines 108-109: the forest is fitted on the
\* resampled training set and returned
TrainRandomForest ==
    /\ train_pc = "running"
    /\ split_pc = "returned"
    /\ clf' \in Classifiers
    /\ train_pc' = "returned"
    /\ UNCHANGED <<forecast_csv, today, df_meteo, df_features, features_columns, predictions_csv, forecast_pc,
                   fusionVars, classifyVars, splitVars, prepareVars, cellVars, historicVars, runsVars,
                   modelVars, againVars>>

TrainNext ==
    \/ TrainTestSplit
    \/ TrainTestSplitRaises
    \/ SmoteFitResample
    \/ SmoteFitResampleRaises
    \/ TrainRandomForest
    \/ TrainAndReturnModelRaises

\* train_and_return_model on arbitrary training labels
SpecTrain == TrainInit /\ [][TrainNext]_vars

-----------------------------------------------------------------------------
(* The two entry points: predictions.main and historic_data.main *)

\* the days of the training files
TrainingDays == 1 .. 6

\* the days with a detection
DetectionDays == 1 .. 3

\* raw_fire_totrain.csv: a detection of frp 15 on each of the first days
TrainingFire ==
    [d \in DetectionDays |->
        [latitude |-> 3690, longitude |-> -11940, acq_date |-> d, frp |-> 15000]]

\* the same detections with frp 0: every cell/day is of class 0
TrainingFireZero == [d \in DetectionDays |-> [TrainingFire[d] EXCEPT !.frp = 0]]

\* the detection of the first day alone: class 2 has a single cell/day
TrainingFireOne == <<TrainingFire[1]>>

\* raw_meteo_totrain.csv: one observation of the cell on each day
TrainingMeteo ==
    [d \in TrainingDays |->
        [latitude |-> 3690, longitude |-> -11940, time |-> <<d, 0>>]
            @@ [c \in FeatureSet |-> Num(100)]]

\* meteo_forecast.csv: a complete row and a row without cvh
ForecastFile ==
    << [latitude |-> 3690, longitude |-> -11940, time |-> 24]
           @@ [c \in FeatureSet |-> Num(500)],
       [latitude |-> 3690, longitude |-> -11940, time |-> 48]
           @@ [c \in FeatureSet |-> IF c = "cvh" THEN NaN ELSE Num(500)] >>

\* the forecast file with its incomplete row alone
ForecastIncomplete == <<ForecastFile[2]>>

\* a file without the column c
DropColumn(rows, c) ==
    [i \in DOMAIN rows |-> [k \in DOMAIN rows[i] \ {c} |-> rows[i][k]]]

\* a file as it is, or without one of its columns
ColumnVariants(rows) == {rows} \cup {DropColumn(rows, c) : c \in DOMAIN rows[1]}

\* the files of a run <<fire, meteo, forecast>>: at most one of them is not
\* the file above
PipelineFiles ==
    {<<f, TrainingMeteo, ForecastFile>> :
        f \in ColumnVariants(TrainingFire) \cup {TrainingFireZero, TrainingFireOne}}
    \cup {<<TrainingFire, m, ForecastFile>> : m \in ColumnVariants(TrainingMeteo)}
    \cup {<<TrainingFire, TrainingMeteo, fc>> :
              fc \in ColumnVariants(ForecastFile) \cup {ForecastIncomplete}}

PipelineInit ==
    /\ \E files \in PipelineFiles :
          /\ fire_csv = files[1]
          /\ meteo_csv = files[2]
          /\ \/ /\ forecast_csv = files[3]
                /\ today = 100
                /\ forecast_pc = "start"
                /\ fusion_pc = "idle"
                /\ historic_pc = "idle"
             \/ /\ files[3] = ForecastFile
                /\ forecast_csv = <<>>
                /\ today = 0
                /\ forecast_pc = "idle"
                /\ fusion_pc = "start"
                /\ historic_pc = "start"
    /\ df_model = <<>>
    /\ df_meteo = <<>>
    /\ df_features = <<>>
    /\ features_columns = <<>>
    /\ clf = "none"
    /\ predictions_csv = <<>>
    /\ fused_csv = <<>>
    /\ ClassifyIdle
    /\ SplitIdle
    /\ PrepareIdle
    /\ CellIdle
    /\ TrainIdle
    /\ RunsIdle
    /\ ModelIdle
    /\ AgainIdle

\* predictions.main, line 96: train_and_return_model is entered; its stages
\* load_df_model and prepare_data are due
CallTrainAndReturnModel ==
    /\ forecast_pc = "prepared"
    /\ train_pc = "idle"
    /\ forecast_pc' = "training"
    /\ train_pc' = "running"
    /\ fusion_pc' = "start"
    /\ prepare_pc' = "start"
    /\ UNCHANGED <<forecast_csv, today, df_meteo, df_features, features_columns, clf, predictions_csv,
                   fire_csv, meteo_csv, df_model, prepared, classifyVars, splitVars,
                   cellVars, historicVars, runsVars, modelVars, againVars>>

\* train_and_return_model, line 107: split_and_resample(X, y) is entered with
\* the labels of y in the order of the rows of X
CallSplitAndResample ==
    /\ train_pc = "running"
    /\ prepare_pc = "done"
    /\ split_pc = "idle"
    /\ y' = [k \in DOMAIN prepared[2] |-> prepared[2][k].value]
    /\ split_pc' = "start"
    /\ UNCHANGED <<train, test, train_resampled, fusionVars, classifyVars, forecastVars,
                   restVars>>

\* a try/except around line 96 that goes on without a fitted model
MainTrainingContinues ==
    /\ forecast_pc = "training"
    /\ train_pc = "raised"
    /\ forecast_pc' = "trained"
    /\ UNCHANGED <<forecast_csv, today, df_meteo, df_features, features_columns, clf, predictions_csv,
                   fusionVars, classifyVars, splitVars, restVars>>

\* predictions.main, line 96: train_and_return_model raised; main has no
\* try/except and ends with that exception
MainTrainingRaises ==
    /\ forecast_pc = "training"
    /\ train_pc = "raised"
    /\ forecast_pc' = "failed"
    /\ UNCHANGED <<forecast_csv, today, df_meteo, df_features, features_columns, clf, predictions_csv,
                   fusionVars, classifyVars, splitVars, restVars>>

\* a gate on the score of the model that ends the run
MainScoreGate ==
    /\ forecast_pc = "training"
    /\ train_pc = "returned"
    /\ forecast_pc' = "failed"
    /\ UNCHANGED <<forecast_csv, today, df_meteo, df_features, features_columns, clf, predictions_csv,
                   fusionVars, classifyVars, splitVars, restVars>>

\* predictions.main, line 96: train_and_return_model returned the classifier
MainTrained ==
    /\ forecast_pc = "training"
    /\ train_pc = "returned"
    /\ forecast_pc' = "trained"
    /\ UNCHANGED <<forecast_csv, today, df_meteo, df_features, features_columns, clf, predictions_csv,
                   fusionVars, classifyVars, splitVars, restVars>>

\* historic_data.main, line 137: load_df_model raised
HistoricMainRaises ==
    /\ historic_pc = "start"
    /\ fusion_pc = "failed"
    /\ historic_pc' = "failed"
    /\ UNCHANGED <<fused_csv, fusionVars, classifyVars, forecastVars, splitVars,
                   prepareVars, cellVars, trainVars, runsVars, modelVars, againVars>>

\* historic_data.main, lines 139-144: the class distribution and the count of
\* missing values are printed
ReportStatistics ==
    /\ historic_pc = "start"
    /\ fusion_pc = "done"
    /\ historic_pc' = "reported"
    /\ UNCHANGED <<fused_csv, fusionVars, classifyVars, forecastVars, splitVars,
                   prepareVars, cellVars, trainVars, runsVars, modelVars, againVars>>

\* historic_data.main, line 147: df.to_csv(output_csv, index=False)
ToCsv ==
    /\ historic_pc = "reported"
    /\ fused_csv' = df_model
    /\ historic_pc' = "saved"
    /\ UNCHANGED <<fusionVars, classifyVars, forecastVars, splitVars,
                   prepareVars, cellVars, trainVars, runsVars, modelVars, againVars>>

\* the steps of a run but the return of load_df_model
PipelineOther ==
    \/ LoadMeteorologicalData
    \/ LoadMeteorologicalDataRaises
    \/ RemapTimeColumn
    \/ PrepareFeatures
    \/ PrepareFeaturesRaises
    \/ CallTrainAndReturnModel
    \/ LoadDfModelRaises
    \/ PrepareData
    \/ CallSplitAndResample
    \/ TrainTestSplit
    \/ TrainTestSplitRaises
    \/ SmoteFitResample
    \/ SmoteFitResampleRaises
    \/ TrainRandomForest
    \/ TrainAndReturnModelRaises
    \/ MainTrained
    \/ MainTrainingRaises
    \/ AddPredictions
    \/ AddPredictionsRaises
    \/ SaveForecast
    \/ HistoricMainRaises
    \/ ReportStatistics
    \/ ToCsv

PipelineNext ==
    \/ LoadDfModel
    \/ PipelineOther

\* one run of predictions.main or of historic_data.main
SpecPipeline == PipelineInit /\ [][PipelineNext]_vars

\* load_df_model is entered on files it reads to the end: the guard of
\* LoadDfModel, which is enabled exactly then
LoadDfModelDue ==
    /\ fusion_pc = "start"
    /\ fire_csv # <<>>
    /\ meteo_csv # <<>>
    /\ ~LoadKeyError(fire_csv, meteo_csv)

\* the same run of a single thread: the interpreter executes the statement
\* that is due, and load_df_model, a pass over two finite tables, returns.
\* The second conjunct is WF_vars(LoadDfModel) with the enabling condition
\* written out
SpecPipelineFair ==
    /\ SpecPipeline
    /\ WF_vars(PipelineOther)
    /\ []<>(~LoadDfModelDue)

-----------------------------------------------------------------------------
(* predictive_model.main: training followed by evaluate_model *)

\* predictive_model.main is entered: its lines 118, 119, 121 and 122 are the
\* calls of lines 105-108 of train_and_return_model, line 120 prints the
\* class counts
ModelMainInit ==
    /\ \E files \in PipelineFiles :
          /\ files[2] = TrainingMeteo
          /\ files[3] = ForecastFile
          /\ fire_csv = files[1]
          /\ meteo_csv = files[2]
    /\ model_pc = "start"
    /\ y_pred = <<>>
    /\ train_pc = "running"
    /\ fusion_pc = "start"
    /\ prepare_pc = "start"
    /\ prepared = <<>>
    /\ df_model = <<>>
    /\ ForecastIdle
    /\ ClassifyIdle
    /\ SplitIdle
    /\ CellIdle
    /\ HistoricIdle
    /\ RunsIdle
    /\ AgainIdle

\* predictive_model.main, line 123: evaluate_model predicts the test split
\* and returns nothing
EvaluateModel ==
    /\ model_pc = "start"
    /\ train_pc = "returned"
    /\ y_pred' \in [DOMAIN test -> Classes]
    /\ model_pc' = "evaluated"
    /\ UNCHANGED <<fusionVars, classifyVars, forecastVars, splitVars, prepareVars,
                   cellVars, historicVars, trainVars, runsVars, againVars>>

\* predictive_model.main: a call of lines 118-122 raised
ModelMainRaises ==
    /\ model_pc = "start"
    /\ train_pc = "raised"
    /\ model_pc' = "failed"
    /\ UNCHANGED <<y_pred, fusionVars, classifyVars, forecastVars, splitVars, prepareVars,
                   cellVars, historicVars, trainVars, runsVars, againVars>>

ModelsNext ==
    \/ PipelineNext
    \/ EvaluateModel
    \/ ModelMainRaises

\* one run of predictions.main, of historic_data.main or of
\* predictive_model.main
SpecModels == (PipelineInit \/ ModelMainInit) /\ [][ModelsNext]_vars

-----------------------------------------------------------------------------
(* Two runs on the same input: the seeded and the unseeded random draws *)

Runs == {1, 2}

\* largest value the operating system seeds a generator with
MaxEntropy == 3

\* the state of a generator that was given no seed: the entropy the
\* operating system hands to the run
OsEntropy(r) == entropy[r]

\* train_test_split(..., random_state=42), line 57: the same in every run
SplitRandomState(r) == SplitSeed

\* SMOTE(random_state=42), line 59
SmoteRandomState(r) == SmoteSeed

\* RandomForestClassifier(..., random_state=42), line 75
ForestRandomState(r) == ForestSeed

\* np.random.normal of historic_data.py, line 71, draws from the global
\* generator of numpy, which no line of the code seeds
NoiseRandomState(r) == OsEntropy(r)

\* the element of a non-empty set that a generator in state random_state
\* picks: one fixed element for each state
Pick(S, random_state) == SetToSeq(S)[(random_state % Cardinality(S)) + 1]

\* train_test_split of lines 56-58 as a function of its random_state
train_test_split(rows, random_state) == Pick(TrainTestSplits(rows), random_state)

\* smote.fit_resample of line 60 as a function of its random_state: every
\* synthetic row is interpolated from a row of its class that the generator
\* picks
smote_fit_resample_seeded(rows, random_state) ==
    LET resampled == smote_fit_resample(rows)
    IN  [k \in DOMAIN resampled |->
            IF resampled[k].synthetic
            THEN resampled[k] @@
                 [base |-> Pick({rows[i].id : i \in {j \in DOMAIN rows :
                                    rows[j].label = resampled[k].label}},
                                random_state + k)]
            ELSE resampled[k]]

\* train_random_forest, lines 75-76: the fitted forest is a function of the
\* training rows and of the generator that draws the bootstrap samples
train_random_forest(rows, random_state) ==
    [fitted_on |-> rows, bootstrap |-> random_state]

\* the draws of the rows of a table of n rows from a generator in state
\* random_state: the i-th binary digit of the state selects the draws of row i
NormalDraws(random_state, n) ==
    [i \in 1..n |-> SetToSeq(NoiseVectors)[((random_state \div (2 ^ (i - 1))) % 2) + 1]]

\* the label vectors given to both runs: rows of class 0 and of class 2
RunLabelVectors == {LabelVector(n0, 0, n2) : n0 \in {1, 3, 8}, n2 \in {0, 3, 10}}

\* the detection and the observations of the files given to both runs
RunFire == <<[latitude |-> 3680, longitude |-> -11940, acq_date |-> 1, frp |-> 15000]>>

RunMeteo ==
    [d \in 1..2 |-> [latitude |-> 3680, longitude |-> -11940, time |-> <<d, 0>>]
                        @@ [c \in FeatureSet |-> Num(100)]]

RunsInit ==
    /\ y \in RunLabelVectors
    /\ fire_csv \in {<<>>, RunFire}
    /\ meteo_csv \in {SubSeq(RunMeteo, 1, 1), RunMeteo}
    /\ entropy \in [Runs -> 0..MaxEntropy]
    /\ run_pc = [r \in Runs |-> "start"]
    /\ run_split = [r \in Runs |-> <<>>]
    /\ run_resampled = [r \in Runs |-> <<>>]
    /\ run_clf = [r \in Runs |-> "none"]
    /\ run_df_model = [r \in Runs |-> <<>>]
    /\ run_fusion_pc = [r \in Runs |-> "start"]
    /\ df_model = <<>>
    /\ fusion_pc = "idle"
    /\ train = <<>>
    /\ test = <<>>
    /\ train_resampled = <<>>
    /\ split_pc = "idle"
    /\ ClassifyIdle
    /\ ForecastIdle
    /\ PrepareIdle
    /\ CellIdle
    /\ HistoricIdle
    /\ TrainIdle
    /\ ModelIdle
    /\ AgainIdle

\* split_and_resample of run r, lines 56-58
RunTrainTestSplit(r) ==
    /\ run_pc[r] = "start"
    /\ ~SplitRefused(Samples(y))
    /\ run_split' = [run_split EXCEPT
                        ![r] = train_test_split(Samples(y), SplitRandomState(r))]
    /\ run_pc' = [run_pc EXCEPT ![r] = "split"]
    /\ UNCHANGED <<entropy, run_resampled, run_clf, run_df_model, run_fusion_pc,
                   fusionVars, classifyVars, forecastVars, splitVars, prepareVars,
                   cellVars, historicVars, trainVars, modelVars, againVars>>

\* lines 56-58 of run r: the ValueError of train_test_split
RunTrainTestSplitRaises(r) ==
    /\ run_pc[r] = "start"
    /\ SplitRefused(Samples(y))
    /\ run_pc' = [run_pc EXCEPT ![r] = "split_failed"]
    /\ UNCHANGED <<entropy, run_split, run_resampled, run_clf, run_df_model,
                   run_fusion_pc, fusionVars, classifyVars, forecastVars, splitVars,
                   prepareVars, cellVars, historicVars, trainVars, modelVars, againVars>>

\* split_and_resample of run r, lines 59-61
RunSmoteFitResample(r) ==
    /\ run_pc[r] = "split"
    /\ ~SmoteRefused(run_split[r][1])
    /\ run_resampled' = [run_resampled EXCEPT
            ![r] = smote_fit_resample_seeded(run_split[r][1], SmoteRandomState(r))]
    /\ run_pc' = [run_pc EXCEPT ![r] = "resampled"]
    /\ UNCHANGED <<entropy, run_split, run_clf, run_df_model, run_fusion_pc,
                   fusionVars, classifyVars, forecastVars, splitVars, prepareVars,
                   cellVars, historicVars, trainVars, modelVars, againVars>>

\* lines 59-60 of run r: the ValueError of SMOTE
RunSmoteFitResampleRaises(r) ==
    /\ run_pc[r] = "split"
    /\ SmoteRefused(run_split[r][1])
    /\ run_pc' = [run_pc EXCEPT ![r] = "smote_failed"]
    /\ UNCHANGED <<entropy, run_split, run_resampled, run_clf, run_df_model,
                   run_fusion_pc, fusionVars, classifyVars, forecastVars, splitVars,
                   prepareVars, cellVars, historicVars, trainVars, modelVars, againVars>>

\* train_random_forest of run r on the resampled training set
RunTrainRandomForest(r) ==
    /\ run_pc[r] = "resampled"
    /\ run_clf' = [run_clf EXCEPT
            ![r] = train_random_forest(run_resampled[r], ForestRandomState(r))]
    /\ run_pc' = [run_pc EXCEPT ![r] = "fitted"]
    /\ UNCHANGED <<entropy, run_split, run_resampled, run_df_model, run_fusion_pc,
                   fusionVars, classifyVars, forecastVars, splitVars, prepareVars,
                   cellVars, historicVars, trainVars, modelVars, againVars>>

\* load_df_model of run r returns
RunLoadDfModel(r) ==
    /\ run_fusion_pc[r] = "start"
    /\ fire_csv # <<>>
    /\ meteo_csv # <<>>
    /\ ~LoadKeyError(fire_csv, meteo_csv)
    /\ LET df == Labelled(fire_csv, meteo_csv)
       IN  run_df_model' = [run_df_model EXCEPT
               ![r] = Augmented(df, NormalDraws(NoiseRandomState(r), Len(df)))]
    /\ run_fusion_pc' = [run_fusion_pc EXCEPT ![r] = "done"]
    /\ UNCHANGED <<entropy, run_pc, run_split, run_resampled, run_clf,
                   fusionVars, classifyVars, forecastVars, splitVars, prepareVars,
                   cellVars, historicVars, trainVars, modelVars, againVars>>

\* load_df_model of run r raises
RunLoadDfModelRaises(r) ==
    /\ run_fusion_pc[r] = "start"
    /\ fire_csv = <<>> \/ meteo_csv = <<>> \/ LoadKeyError(fire_csv, meteo_csv)
    /\ run_fusion_pc' = [run_fusion_pc EXCEPT ![r] = "failed"]
    /\ UNCHANGED <<entropy, run_pc, run_split, run_resampled, run_clf, run_df_model,
                   fusionVars, classifyVars, forecastVars, splitVars, prepareVars,
                   cellVars, historicVars, trainVars, modelVars, againVars>>

RunsNext ==
    \/ \E r \in Runs : RunTrainTestSplit(r)
    \/ \E r \in Runs : RunTrainTestSplitRaises(r)
    \/ \E r \in Runs : RunSmoteFitResample(r)
    \/ \E r \in Runs : RunSmoteFitResampleRaises(r)
    \/ \E r \in Runs : RunTrainRandomForest(r)
    \/ \E r \in Runs : RunLoadDfModel(r)
    \/ \E r \in Runs : RunLoadDfModelRaises(r)

\* two runs of the training and two runs of the fusion on the same input
SpecRuns == RunsInit /\ [][RunsNext]_vars

-----------------------------------------------------------------------------
(* Claims about the fusion and the augmentor *)

\* the <<calendar date, cell_id>> of a meteorological observation / a detection
ObsKey(o) == <<o.time[1], compute_cell_id(o.latitude, o.longitude)[3]>>

DetKey(d) == <<d.acq_date, compute_cell_id(d.latitude, d.longitude)[3]>>

MeteoKeys == {ObsKey(meteo_csv[i]) : i \in DOMAIN meteo_csv}

FireKeys == {DetKey(fire_csv[i]) : i \in DOMAIN fire_csv}

\* the frp of the detections of one date and cell
FrpOf(k) == {fire_csv[i].frp : i \in {j \in DOMAIN fire_csv : DetKey(fire_csv[j]) = k}}

\* C1: the returned table has exactly one row for each (date, cell_id) of the
\* meteorological observations, and no row for a (date, cell_id) that occurs
\* only among the fire detections.
C1_OneRowPerMeteoKey ==
    fusion_pc = "done" =>
        /\ {KeyOf(df_model[i]) : i \in DOMAIN df_model} = MeteoKeys
        /\ \A i, j \in DOMAIN df_model :
              KeyOf(df_model[i]) = KeyOf(df_model[j]) => i = j
        /\ \A k \in FireKeys \ MeteoKeys :
              \A i \in DOMAIN df_model : KeyOf(df_model[i]) # k

\* two observations of one cell and day at different hours collapsed into the
\* single row of the table, beside a detection of another cell or day
C1_Witness ==
    /\ fusion_pc = "done"
    /\ Len(df_model) = 1
    /\ \E i, j \in DOMAIN meteo_csv :
          /\ meteo_csv[i].time # meteo_csv[j].time
          /\ ObsKey(meteo_csv[i]) = ObsKey(meteo_csv[j])
    /\ FireKeys \ MeteoKeys # {}

\* C2: frp_max of a row is the maximum frp of the detections of the row's date
\* and cell, and 0 (not missing) when there is none.
C2_FrpMaxIsGroupMax ==
    fusion_pc = "done" =>
        \A i \in DOMAIN df_model :
            LET frps == FrpOf(KeyOf(df_model[i]))
                m    == df_model[i].frp_max
            IN  /\ m \in Int
                /\ frps = {} => m = 0
                /\ frps # {} => m \in frps /\ \A f \in frps : f <= m

\* a row with two detections of different frp
C2_Witness ==
    /\ fusion_pc = "done"
    /\ \E i \in DOMAIN df_model :
          /\ Cardinality(FrpOf(KeyOf(df_model[i]))) >= 2
          /\ df_model[i].frp_max = 10000

Cell4(c) == c[1] * 100

\* C5 as stated: every feature is non-null and within 6 * noise_std * mean of
\* the class mean of the row's fire_class, up to the rounding to 2 decimals.
C5_WithinSixDeviations ==
    fusion_pc = "done" =>
        \A i \in DOMAIN df_model : \A c \in FeatureSet :
            LET mean_val == FIRE_CLASS_MEANS[df_model[i].fire_class][c]
            IN  /\ ~IsNull(df_model[i][c])
                /\ Abs(Cell4(df_model[i][c]) - mean_val * 100)
                       <= 6 * NoiseStd * mean_val + 50

\* the Gaussian draws (half deviations) the model keeps
ModelDraws == UNION {{nv[c] : c \in FeatureSet} : nv \in NoiseVectors}

\* C5 amended: every feature is non-null and is the class mean of the row's
\* fire_class plus a Gaussian draw of deviation noise_std * mean, rounded to 2
\* decimals; the draw has no bound.
C5_NonNullClassMeanPlusNoise ==
    fusion_pc = "done" =>
        \A i \in DOMAIN df_model : \A c \in FeatureSet :
            LET mean_val == FIRE_CLASS_MEANS[df_model[i].fire_class][c]
            IN  /\ c \in DOMAIN df_model[i]
                /\ ~IsNull(df_model[i][c])
                /\ \E z \in ModelDraws :
                      LET v == mean_val * 100 + z * mean_val
                      IN  /\ Cell4(df_model[i][c]) - v <= 50
                          /\ v - Cell4(df_model[i][c]) <= 50

\* a row whose aggregated sst was missing carries a synthetic sst
C5_Witness ==
    /\ fusion_pc = "done"
    /\ \E i \in DOMAIN df_model :
          /\ IsNull(MeteoGrouped(meteo_csv)[i].sst)
          /\ ~IsNull(df_model[i].sst)

\* the meteorological files that agree with meteo on the place and time of
\* every observation and differ at most in the feature values
SameObservations(meteo) ==
    { [i \in DOMAIN meteo |->
          [latitude |-> meteo[i].latitude, longitude |-> meteo[i].longitude,
           time |-> meteo[i].time] @@ fvs[i]] :
        fvs \in [DOMAIN meteo -> FeatureVectors] }

\* C6: the returned table is a possible result of the run on any input that
\* differs only in the meteorological feature values: same rows, frp_max,
\* fire_class, and feature values that depend on fire_class and the noise only.
C6_FeaturesIgnoreRealValues ==
    fusion_pc = "done" =>
        \A alt \in SameObservations(meteo_csv) :
            LET df == Labelled(fire_csv, alt)
            IN  /\ Len(df) = Len(df_model)
                /\ \A i \in DOMAIN df :
                      \E nv \in NoiseVectors :
                          replace_with_class_means(df[i], nv) = df_model[i]

\* a table made from observations with differing feature values
C6_Witness ==
    /\ fusion_pc = "done"
    /\ Len(df_model) = 2
    /\ \E i, j \in DOMAIN meteo_csv : meteo_csv[i].u10 # meteo_csv[j].u10

\* C3: classify_frp returns 0 for frp = 0, 1 for 0 < frp < 10 and 2 for
\* frp >= 10 (so 9.999 is class 1, 10 and 10.001 are class 2), and always a
\* value of {0, 1, 2}.
C3_ClassifyRule ==
    frp_class # -1 =>
        /\ frp_class \in {0, 1, 2}
        /\ frp_arg = 0 => frp_class = 0
        /\ (0 < frp_arg /\ frp_arg < 10000) => frp_class = 1
        /\ frp_arg >= 10000 => frp_class = 2
        /\ frp_arg = 9999 => frp_class = 1
        /\ frp_arg = 10001 => frp_class = 2

\* the call classify_frp(10) returned 2
C3_Witness == frp_arg = 10000 /\ frp_class = 2

-----------------------------------------------------------------------------
(* Claims about the forecast run *)

Predicted == forecast_pc \in {"predicted", "saved"}

Complete(row) == \A c \in FeatureSet : ~IsNull(row[c])

\* C7: in the table add_predictions produced, a row has a fire_prediction if
\* and only if its 12 features are all present, and the value is the model's
\* output on the features of that very row; an incomplete row has none.
C7_PredictionIffComplete ==
    Predicted =>
        \A i \in DOMAIN df_meteo :
            /\ Complete(df_meteo[i]) <=> ~IsNull(df_meteo[i].fire_prediction)
            /\ Complete(df_meteo[i]) =>
                  df_meteo[i].fire_prediction = Num(Predict(clf, df_meteo[i]))

\* an incomplete row followed by a complete one, each treated as such
C7_Witness ==
    /\ Predicted
    /\ \E i, j \in DOMAIN df_meteo :
          /\ i < j
          /\ ~Complete(df_meteo[i])
          /\ IsNull(df_meteo[i].fire_prediction)
          /\ Complete(df_meteo[j])
          /\ df_meteo[j].fire_prediction # Num(0)

Remapped == forecast_pc \in {"remapped", "prepared", "trained", "predicted", "saved", "failed"}

\* C8: remap_time_column sends N distinct timestamps to the N contiguous days
\* today .. today+N-1, and two rows' new dates compare as their original
\* timestamps did.
C8_RemapContiguousOrdered ==
    Remapped =>
        LET N == Cardinality({forecast_csv[i].time : i \in DOMAIN forecast_csv})
        IN  /\ Len(df_meteo) = Len(forecast_csv)
            /\ {df_meteo[i].time : i \in DOMAIN df_meteo} = today .. (today + N - 1)
            /\ \A i, j \in DOMAIN df_meteo :
                  /\ (forecast_csv[i].time < forecast_csv[j].time)
                        <=> (df_meteo[i].time < df_meteo[j].time)
                  /\ (forecast_csv[i].time = forecast_csv[j].time)
                        <=> (df_meteo[i].time = df_meteo[j].time)

\* three distinct timestamps, two of one day, met in descending order
C8_Witness ==
    /\ forecast_pc = "remapped"
    /\ Len(forecast_csv) = 3
    /\ forecast_csv[1].time = 48 /\ forecast_csv[2].time = 36 /\ forecast_csv[3].time = 24
    /\ df_meteo[1].time = today + 2 /\ df_meteo[3].time = today

-----------------------------------------------------------------------------
(* Claims about split_and_resample *)

\* the number of rows of class c among the rows of a table / in y
Rows(rows, c) == Cardinality({i \in DOMAIN rows : rows[i].label = c})

InY(c) == Cardinality({i \in DOMAIN y : y[i] = c})

\* k rows of class c are the proportional share of a part of `size` rows, up
\* to rounding: less than one row away from size * InY(c) / Len(y)
Proportional(k, c, size) ==
    /\ k * Len(y) - size * InY(c) < Len(y)
    /\ size * InY(c) - k * Len(y) < Len(y)

\* a row of the input with its own label
Original(r) == ~r.synthetic /\ r.id \in DOMAIN y /\ r.label = y[r.id]

\* C9: when split_and_resample returns, all classes present in the returned
\* training labels have equal counts; the test split holds original rows only,
\* in the stratified proportions of y, and as many as the split gave it:
\* the oversampling went to the training split alone.
C9_TrainBalancedTestUntouched ==
    split_pc = "returned" =>
        /\ \A c, d \in ClassesIn(train_resampled) :
              Rows(train_resampled, c) = Rows(train_resampled, d)
        /\ \A i \in DOMAIN test : Original(test[i])
        /\ \A c \in Classes : Proportional(Rows(test, c), c, Len(test))
        /\ Len(test) + Len(train) = Len(y)
        /\ \A i \in DOMAIN train_resampled :
              train_resampled[i].synthetic => \A j \in DOMAIN test :
                  test[j].id # train_resampled[i].id

\* an imbalanced training split returned balanced by synthetic rows
C9_Witness ==
    /\ split_pc = "returned"
    /\ Rows(train, 0) < Rows(train, 1)
    /\ \E i \in DOMAIN train_resampled : train_resampled[i].synthetic
    /\ Rows(test, 0) < Rows(test, 1)

\* C10: the split is a partition of the input rows with their labels; the test
\* part holds 20% of the rows, rounded up to whole rows, and every class has
\* its proportional share of both parts up to rounding.
C10_SplitIsStratifiedPartition ==
    split_pc \in {"split", "returned"} =>
        /\ \A i \in DOMAIN train : Original(train[i])
        /\ \A i \in DOMAIN test : Original(test[i])
        /\ \A i \in DOMAIN train : \A j \in DOMAIN test : train[i].id # test[j].id
        /\ \A i, j \in DOMAIN train : train[i].id = train[j].id => i = j
        /\ \A i, j \in DOMAIN test : test[i].id = test[j].id => i = j
        /\ {train[i].id : i \in DOMAIN train} \cup {test[i].id : i \in DOMAIN test}
              = DOMAIN y
        /\ 5 * Len(test) >= Len(y)
        /\ 5 * (Len(test) - 1) < Len(y)
        /\ \A c \in Classes :
              /\ Proportional(Rows(test, c), c, Len(test))
              /\ Proportional(Rows(train, c), c, Len(train))

\* three classes of unequal size split 12 to 3
C10_Witness ==
    /\ split_pc = "split"
    /\ Len(train) = 12
    /\ Len(test) = 3
    /\ InY(0) < InY(1) /\ InY(1) < InY(2)
    /\ \A c \in Classes : Rows(test, c) = 1

-----------------------------------------------------------------------------
(* Claims about prepare_data *)

\* the index labels of the rows of df_model without a missing feature
CompleteLabels == {i - 1 : i \in {j \in DOMAIN df_model : Complete(df_model[j])}}

\* C11: X holds exactly the rows of df without a missing feature, once each
\* and in the order of df, with the 12 feature columns in schema order and the
\* feature values of the row; y has the index of X, and y at a label is the
\* fire_class of the row of df with that label.
C11_LabelsAlignedToSurvivingRows ==
    prepare_pc = "done" =>
        LET X == prepared[1]
            labels == prepared[2]
        IN  /\ X.columns = FEATURE_COLUMNS
            /\ {X.rows[k].index : k \in DOMAIN X.rows} = CompleteLabels
            /\ \A j, k \in DOMAIN X.rows : j < k => X.rows[j].index < X.rows[k].index
            /\ \A k \in DOMAIN X.rows :
                  /\ DOMAIN X.rows[k] = FeatureSet \cup {"index"}
                  /\ \A c \in FeatureSet :
                        X.rows[k][c] = df_model[X.rows[k].index + 1][c]
            /\ Len(labels) = Len(X.rows)
            /\ \A k \in DOMAIN labels :
                  /\ labels[k].index = X.rows[k].index
                  /\ labels[k].value = df_model[labels[k].index + 1].fire_class

\* an incomplete row of class 0 dropped ahead of a complete row of class 2,
\* which keeps its label 2 under its index label 1
C11_Witness ==
    /\ prepare_pc = "done"
    /\ Len(df_model) >= 2
    /\ ~Complete(df_model[1]) /\ df_model[1].fire_class = 0
    /\ Complete(df_model[2]) /\ df_model[2].fire_class = 2
    /\ prepared[2][1] = [index |-> 1, value |-> 2]

-----------------------------------------------------------------------------
(* Claims about compute_cell_id *)

\* C12: applying compute_cell_id to the cell_lat and cell_lon it returned
\* yields the same cell_lat, cell_lon and cell_id.
C12_CellIdIdempotent ==
    cell_pc = "reapplied" => cell_cell = point_cell

\* floor(x / cell_size) * cell_size in exact arithmetic, x in hundredths and
\* the result in thousandths
GridFloor(x) == (x \div CellSize) * CellSize * 10

\* C13: cell_lat and cell_lon are floor(lat / cell_size) * cell_size and
\* floor(lon / cell_size) * cell_size, so that cell_lat <= lat < cell_lat +
\* cell_size (also below zero); cell_id is the two values with 3 decimals
\* joined by "_"; and another point gets the same cell_id exactly when it
\* floor-divides to the same grid coordinates.
C13_CellIsGridFloor ==
    cell_pc = "returned" =>
        /\ point_cell[1] = GridFloor(point[1])
        /\ point_cell[2] = GridFloor(point[2])
        /\ point_cell[1] <= point[1] * 10
        /\ point[1] * 10 < point_cell[1] + CellSize * 10
        /\ point_cell[2] <= point[2] * 10
        /\ point[2] * 10 < point_cell[2] + CellSize * 10
        /\ point_cell[3] = Format3(point_cell[1]) \o <<"_">> \o Format3(point_cell[2])
        /\ \A q \in LatArgs \X LonArgs :
              (compute_cell_id(q[1], q[2])[3] = point_cell[3])
                  <=> (/\ q[1] \div CellSize = point[1] \div CellSize
                       /\ q[2] \div CellSize = point[2] \div CellSize)

-----------------------------------------------------------------------------
(* Claims about the end-to-end scenario *)

\* the table has the single row of the detection's cell and day, with the
\* detection's frp and its class
ScenarioRow ==
    /\ Len(df_model) = 1
    /\ df_model[1].frp_max = fire_csv[1].frp
    /\ fire_csv[1].frp = 0 => df_model[1].fire_class = 0
    /\ (0 < fire_csv[1].frp /\ fire_csv[1].frp < HighFrp) => df_model[1].fire_class = 1
    /\ fire_csv[1].frp >= HighFrp => df_model[1].fire_class = 2
    /\ fire_csv[1].frp = 15000 => df_model[1].frp_max = 15000 /\ df_model[1].fire_class = 2

\* the features of the row do not depend on the feature values of the input
ScenarioIgnoresInputFeatures ==
    \A alt \in SameObservations(meteo_csv) :
        \E nv \in NoiseVectors :
            replace_with_class_means(Labelled(fire_csv, alt)[1], nv) = df_model[1]

\* C14 as stated: one row, frp_max = f, fire_class = classify_frp(f), and every
\* feature the mean of that class plus a bounded noise (within 6 deviations
\* noise_std * mean, up to the rounding), whatever the input features were.
C14_ScenarioBoundedNoise ==
    fusion_pc = "done" =>
        /\ ScenarioRow
        /\ ScenarioIgnoresInputFeatures
        /\ \A c \in FeatureSet :
              LET mean_val == FIRE_CLASS_MEANS[df_model[1].fire_class][c]
              IN  Abs(Cell4(df_model[1][c]) - mean_val * 100)
                      <= 6 * NoiseStd * mean_val + 50

\* C14 amended: one row, frp_max = f, fire_class = classify_frp(f), and every
\* feature the mean of that class plus a Gaussian draw of deviation noise_std *
\* mean rounded to 2 decimals (no bound on the draw), whatever the input
\* features were.
C14_ScenarioClassMeanPlusNoise ==
    fusion_pc = "done" =>
        /\ ScenarioRow
        /\ ScenarioIgnoresInputFeatures
        /\ \A c \in FeatureSet :
              LET mean_val == FIRE_CLASS_MEANS[df_model[1].fire_class][c]
              IN  /\ ~IsNull(df_model[1][c])
                  /\ \E z \in ModelDraws :
                        LET v == mean_val * 100 + z * mean_val
                        IN  /\ Cell4(df_model[1][c]) - v <= 50
                            /\ v - Cell4(df_model[1][c]) <= 50

\* the detection of frp 15 at latitude 36.7 with two observations of different
\* feature values: one row of class 2
C14_Witness ==
    /\ fusion_pc = "done"
    /\ fire_csv[1].frp = 15000
    /\ fire_csv[1].latitude = 3670
    /\ Len(meteo_csv) = 2
    /\ meteo_csv[1].u10 # meteo_csv[2].u10
    /\ Len(df_model) = 1
    /\ df_model[1].frp_max = 15000
    /\ df_model[1].fire_class = 2

-----------------------------------------------------------------------------
(* Claims about the fusion of a fire file with frp of either sign *)

\* no two rows of the table share their (date, cell_id)
KeysUnique ==
    \A i, j \in DOMAIN df_model : KeyOf(df_model[i]) = KeyOf(df_model[j]) => i = j

\* C15 as stated: whatever detections the fire file holds, frp_max is not
\* negative in any row, and the table has at most one row per (date, cell_id).
C15_FrpMaxNeverNegative ==
    fusion_pc = "done" =>
        /\ \A i \in DOMAIN df_model : df_model[i].frp_max >= 0
        /\ KeysUnique

\* C15 amended: the table has at most one row per (date, cell_id); frp_max of
\* a row is negative only if every detection of its cell and day has a
\* negative frp, hence never when the frp of the file are all >= 0.
C15_FrpMaxSignOfDetections ==
    fusion_pc = "done" =>
        /\ KeysUnique
        /\ \A i \in DOMAIN df_model :
              df_model[i].frp_max < 0 =>
                  /\ FrpOf(KeyOf(df_model[i])) # {}
                  /\ \A f \in FrpOf(KeyOf(df_model[i])) : f < 0
        /\ (\A d \in DOMAIN fire_csv : fire_csv[d].frp >= 0) =>
              \A i \in DOMAIN df_model : df_model[i].frp_max >= 0

\* a file of detections of frp >= 0: the row of a detection of frp 5 beside a
\* row without detection, both with frp_max >= 0
C15_Witness ==
    /\ fusion_pc = "done"
    /\ \A d \in DOMAIN fire_csv : fire_csv[d].frp >= 0
    /\ Len(fire_csv) = 1
    /\ Len(df_model) = 2
    /\ \E i, j \in DOMAIN df_model :
          /\ df_model[i].frp_max = 5000
          /\ FrpOf(KeyOf(df_model[j])) = {}
          /\ df_model[j].frp_max = 0

-----------------------------------------------------------------------------
(* Claims about the order of the classes of classify_frp *)

\* the frp values the returned class is compared with: the next value of the
\* call's argument, the ends of the range and the values around 0 and 10
ComparedFrp == {frp_arg + 1, -10, -1, 0, 1, 5000, 9999, 10000, 10001, MaxFrpArg}

\* C16 as stated: for all frp values a <= b, classify_frp(a) <= classify_frp(b).
C16_MonotonicOnAllFrp ==
    frp_class # -1 =>
        \A b \in ComparedFrp : frp_arg <= b => frp_class <= classify_frp(b)

\* C16 amended: for all frp values 0 <= a <= b, classify_frp(a) <=
\* classify_frp(b); a negative frp is put in class 1, above the class of 0.
C16_MonotonicFromZero ==
    frp_class # -1 =>
        /\ \A b \in ComparedFrp :
              (0 <= frp_arg /\ frp_arg <= b) => frp_class <= classify_frp(b)
        /\ frp_arg < 0 => frp_class = 1

\* the call classify_frp(9.999) returned 1, below the class of 10
C16_Witness == frp_arg = 9999 /\ frp_class = 1 /\ classify_frp(frp_arg + 1) = 2

-----------------------------------------------------------------------------
(* Claims about train_and_return_model *)

\* y is empty or holds a single class
Degenerate == Cardinality({y[i] : i \in DOMAIN y}) <= 1

\* C17 as stated: on an empty or single-class label vector the stratified
\* split fails (it returns no train and test part), and train_and_return_model
\* returns no model.
C17_SplitFailsOnDegenerateLabels ==
    Degenerate =>
        /\ split_pc \notin {"split", "returned"}
        /\ train_pc # "returned"
        /\ clf = "none"

\* C17 amended: on an empty or single-class label vector split_and_resample
\* never returns: the stratified split raises on no row or a single row, and
\* passes a single class of two rows or more to SMOTE, which raises; nothing
\* catches either failure, train_and_return_model raises and returns no model.
C17_NoModelOnDegenerateLabels ==
    Degenerate =>
        /\ split_pc # "returned"
        /\ train_pc # "returned"
        /\ clf = "none"
        /\ split_pc = "split" => Len(y) >= 2 /\ SmoteRefused(train)
        /\ (split_pc = "failed" /\ train = <<>>) => Len(y) <= 1
        /\ train_pc = "raised" => split_pc = "failed"

\* a single class of two rows or more: the split went through, SMOTE raised
\* and train_and_return_model raised
C17_Witness ==
    /\ Degenerate
    /\ Len(y) >= 2
    /\ train # <<>>
    /\ split_pc = "failed"
    /\ train_pc = "raised"

-----------------------------------------------------------------------------
(* Claims about the entry points *)

RunFailed == forecast_pc = "failed" \/ historic_pc = "failed"

RunSaved == forecast_pc = "saved" \/ historic_pc = "saved"

\* no fused table was returned or written, no model returned, no forecast written
NothingProduced ==
    /\ fusion_pc # "done"
    /\ df_model = <<>>
    /\ fused_csv = <<>>
    /\ train_pc # "returned"
    /\ clf = "none"
    /\ predictions_csv = <<>>
    /\ forecast_pc \notin {"trained", "predicted", "saved"}
    /\ historic_pc \notin {"reported", "saved"}

\* a column of the interface is missing from one of the files
InterfaceColumnMissing ==
    \/ LacksColumn(fire_csv, {"latitude", "longitude", "acq_date", "frp"})
    \/ LacksColumn(meteo_csv, {"latitude", "longitude", "time"} \cup FeatureSet)
    \/ LacksColumn(forecast_csv, {"latitude", "longitude", "time"} \cup FeatureSet)

\* a column the code reads by name is missing from one of the files
ReadColumnMissing ==
    \/ LacksColumn(fire_csv, {"latitude", "longitude", "acq_date", "frp"})
    \/ LacksColumn(meteo_csv, {"latitude", "longitude", "time"})
    \/ LacksColumn(forecast_csv, {"time"} \cup FeatureSet)

\* C18 as stated: when a column of the interface is missing from the fire
\* file, the historical meteorological file or the forecast file, the run
\* fails, and no fused table, model or forecast is returned or written.
\* (The files of a run do not change, so "eventually failed, if a column is
\* missing" is the whole of "a missing column leads to the failure".)
C18_FailsOnAnyInterfaceColumn ==
    /\ [](InterfaceColumnMissing => NothingProduced)
    /\ <>(InterfaceColumnMissing => RunFailed)

\* C18 amended: the run fails, and nothing is returned or written, when the
\* fire file lacks latitude, longitude, acq_date or frp, the historical
\* meteorological file lacks latitude, longitude or time, or the forecast file
\* lacks time or a feature column.  A feature column missing from the
\* historical meteorological file, or latitude or longitude missing from the
\* forecast file, fails nothing: the run on otherwise good files completes.
C18_FailsOnColumnsRead ==
    /\ [](ReadColumnMissing => NothingProduced)
    /\ <>(IF ReadColumnMissing THEN RunFailed
                              ELSE InterfaceColumnMissing => RunSaved)

\* the forecast run on a fire file without frp: the forecast file was loaded
\* and prepared, load_df_model raised inside the training, main failed
C18_Witness ==
    /\ LacksColumn(fire_csv, {"frp"})
    /\ df_features # <<>>
    /\ fusion_pc = "failed"
    /\ train_pc = "raised"
    /\ forecast_pc = "failed"
    /\ predictions_csv = <<>>

\* the stages of predictions.main and of historic_data.main in their order
ForecastStages ==
    <<"start", "loaded", "remapped", "prepared", "training", "trained", "predicted", "saved">>

HistoricStages == <<"start", "reported", "saved">>

\* b is the stage after a, or the failure of the run
NextStage(stages, a, b) ==
    \/ b = "failed"
    \/ \E i \in 1..(Len(stages) - 1) : stages[i] = a /\ stages[i + 1] = b

\* a stage of the run has failed
StageFailed ==
    \/ fusion_pc = "failed"
    \/ split_pc = "failed"
    \/ train_pc = "raised"
    \/ RunFailed

\* C19: the stages of each entry point run strictly in sequence; the output
\* file is written only after every earlier stage has succeeded; after a
\* failure no later stage runs and no output file is written; and the run
\* either completes or aborts.
C19_InSequenceToCompletionOrAbort ==
    /\ [][/\ forecast_pc' # forecast_pc =>
                NextStage(ForecastStages, forecast_pc, forecast_pc')
          /\ historic_pc' # historic_pc =>
                NextStage(HistoricStages, historic_pc, historic_pc')
          /\ RunFailed => FALSE
          /\ StageFailed =>
                /\ forecast_pc' \in {forecast_pc, "failed"}
                /\ historic_pc' \in {historic_pc, "failed"}
                /\ train_pc' \in {train_pc, "raised"}
                /\ UNCHANGED <<prepare_pc, split_pc, fusion_pc, clf, df_model, df_meteo,
                               predictions_csv, fused_csv>>]_vars
    /\ [](/\ predictions_csv # <<>> => forecast_pc = "saved"
          /\ fused_csv # <<>> => historic_pc = "saved"
          /\ forecast_pc = "saved" =>
                /\ predictions_csv # <<>>
                /\ \A i \in DOMAIN predictions_csv :
                      "fire_prediction" \in DOMAIN predictions_csv[i]
                /\ clf \in Classifiers
                /\ train_pc = "returned"
                /\ split_pc = "returned"
                /\ prepare_pc = "done"
                /\ fusion_pc = "done"
                /\ df_features # <<>>
          /\ historic_pc = "saved" => fusion_pc = "done" /\ fused_csv = df_model
          /\ StageFailed => predictions_csv = <<>> /\ fused_csv = <<>>)
    /\ <>(RunSaved \/ RunFailed)

\* the forecast run went through all its stages and wrote the forecast
C19_Witness ==
    /\ forecast_pc = "saved"
    /\ Len(predictions_csv) = 2
    /\ ~IsNull(predictions_csv[1].fire_prediction)
    /\ IsNull(predictions_csv[2].fire_prediction)
    /\ Len(df_model) = 6

-----------------------------------------------------------------------------
(* Claims about two runs on the same input *)

\* the columns of the fused table the draws do not touch
KeyAndLabel(row) ==
    [c \in {"date", "cell_id", "frp_max", "fire_class"} |-> row[c]]

\* C20: two runs on the same X and y get the same train/test split, the same
\* resampled training set and the same fitted forest, and fail at the same
\* stage if they fail; two runs of load_df_model on the same files get tables
\* with the same date, cell_id, frp_max and fire_class in every row (their
\* features may differ: C20_Witness).
C20_SeededStagesRepeatNoiseDoesNot ==
    /\ (\A r \in Runs : run_pc[r] # "start") =>
          /\ run_split[1] = run_split[2]
          /\ run_pc[1] = "split_failed" <=> run_pc[2] = "split_failed"
    /\ (\A r \in Runs : run_pc[r] \in {"resampled", "fitted", "smote_failed"}) =>
          /\ run_resampled[1] = run_resampled[2]
          /\ run_pc[1] = "smote_failed" <=> run_pc[2] = "smote_failed"
    /\ (\A r \in Runs : run_pc[r] = "fitted") => run_clf[1] = run_clf[2]
    /\ (\A r \in Runs : run_fusion_pc[r] # "start") =>
          /\ run_fusion_pc[1] = run_fusion_pc[2]
          /\ Len(run_df_model[1]) = Len(run_df_model[2])
          /\ \A i \in DOMAIN run_df_model[1] :
                KeyAndLabel(run_df_model[1][i]) = KeyAndLabel(run_df_model[2][i])

\* two runs seeded differently by the operating system: both fitted the same
\* forest on the same resampled set, which holds synthetic rows, and the two
\* fused tables differ in a feature value
C20_Witness ==
    /\ entropy[1] # entropy[2]
    /\ \A r \in Runs : run_pc[r] = "fitted" /\ run_fusion_pc[r] = "done"
    /\ run_clf[1] = run_clf[2]
    /\ \E k \in DOMAIN run_resampled[1] : run_resampled[1][k].synthetic
    /\ \E i \in DOMAIN run_df_model[1] : \E c \in FeatureSet :
          run_df_model[1][i][c] # run_df_model[2][i][c]

-----------------------------------------------------------------------------
(* Claims about the columns of the fused table *)

\* the columns the fused table is said to have
FusedColumns == {"date", "cell_id", "frp_max", "fire_class"} \cup FeatureSet

\* the means of the coordinates and of the cell coordinates
CarriedColumns == {"latitude", "longitude", "cell_lat", "cell_lon"}

\* C21 as stated: every row of the table load_df_model returns, and of the
\* table historic_data.main writes, has the columns date, cell_id, frp_max,
\* fire_class and the 12 features, and no other column.
C21_OnlyKeysLabelAndFeatures ==
    /\ \A i \in DOMAIN df_model : DOMAIN df_model[i] = FusedColumns
    /\ \A i \in DOMAIN fused_csv : DOMAIN fused_csv[i] = FusedColumns

\* C21 amended: every row has date, cell_id, frp_max, fire_class and the 12
\* features (also a feature the meteorological file did not have), and besides
\* them the group means of latitude, longitude, cell_lat and cell_lon.
C21_KeysLabelFeaturesAndCoordinateMeans ==
    /\ fusion_pc = "done" => df_model # <<>>
    /\ \A i \in DOMAIN df_model :
          DOMAIN df_model[i] = FusedColumns \cup CarriedColumns
    /\ \A i \in DOMAIN fused_csv :
          DOMAIN fused_csv[i] = FusedColumns \cup CarriedColumns

\* the fusion run on a meteorological file without cvh wrote its table
C21_Witness ==
    /\ historic_pc = "saved"
    /\ LacksColumn(meteo_csv, {"cvh"})
    /\ Len(fused_csv) = 6
    /\ \A i \in DOMAIN fused_csv : ~IsNull(fused_csv[i].cvh)

-----------------------------------------------------------------------------
(* Claims about the rows and columns of the forecast table *)

\* the table has the rows of the forecast file in their order, each with the
\* columns of the file, and with the values of the file in every column but time
SameRowsAs(table, file) ==
    /\ Len(table) = Len(file)
    /\ \A i \in DOMAIN file :
          /\ DOMAIN file[i] \subseteq DOMAIN table[i]
          /\ DOMAIN table[i] \ DOMAIN file[i] \subseteq {"index", "fire_prediction"}
          /\ \A c \in DOMAIN file[i] \ {"time"} : table[i][c] = file[i][c]

\* C22: the table in memory after load, remap, prepare_features and
\* add_predictions, and the table written, hold the rows of the forecast file
\* in the same order with the same columns and the same feature and
\* coordinate values; the written table has the columns of the file and
\* fire_prediction, and differs from the file in these two columns only.
C22_ForecastRowsAndColumnsKept ==
    /\ forecast_pc \in {"loaded", "remapped", "prepared", "trained", "predicted", "saved"}
          => SameRowsAs(df_meteo, forecast_csv)
    /\ forecast_pc = "saved" =>
          /\ SameRowsAs(predictions_csv, forecast_csv)
          /\ \A i \in DOMAIN predictions_csv :
                DOMAIN predictions_csv[i] = DOMAIN forecast_csv[i] \cup {"fire_prediction"}

\* a written forecast of three rows, the second of them incomplete and
\* without a prediction, of two different times in descending order
C22_Witness ==
    /\ forecast_pc = "saved"
    /\ Len(predictions_csv) = 3
    /\ IsNull(predictions_csv[2].cvh)
    /\ IsNull(predictions_csv[2].fire_prediction)
    /\ ~IsNull(predictions_csv[3].fire_prediction)
    /\ forecast_csv[1].time > forecast_csv[3].time
    /\ predictions_csv[1].latitude = 3690

-----------------------------------------------------------------------------
(* Claims about missing coordinates *)

NanNan == <<"n", "a", "n", "_", "n", "a", "n">>

\* one half of a cell_id: "nan" for a missing coordinate, the grid cell of
\* the coordinate otherwise
HalfId(x) == IF x = NanCoord THEN <<"n", "a", "n">> ELSE Format3(CellOf(x))

\* the rows of the fused table of a date and a cell_id
FusedRows(d, id) == {i \in DOMAIN df_model : df_model[i].date = d /\ df_model[i].cell_id = id}

\* the frp of the detections of a date and a cell_id
DetectedFrp(d, id) ==
    {fire_csv[k].frp : k \in {j \in DOMAIN fire_csv :
        /\ fire_csv[j].acq_date = d
        /\ HalfId(fire_csv[j].latitude) \o <<"_">> \o HalfId(fire_csv[j].longitude) = id}}

\* a coordinate of the row is missing
CoordinateMissing(row) == row.latitude = NanCoord \/ row.longitude = NanCoord

\* C23 as stated: load_df_model raises nothing on rows with a missing
\* coordinate, and every observation with a missing latitude or longitude is
\* in the fused row of its date with cell_id 'nan_nan' and cell_lat, cell_lon
\* missing, where it is joined to the detections of that date with a missing
\* coordinate.
C23_MissingCoordinateIsNanNan ==
    /\ (fire_csv # <<>> /\ meteo_csv # <<>>) => fusion_pc # "failed"
    /\ fusion_pc = "done" =>
          \A k \in DOMAIN meteo_csv :
              CoordinateMissing(meteo_csv[k]) =>
                  \E i \in FusedRows(DateOfTime(meteo_csv[k].time), NanNan) :
                      /\ IsNull(df_model[i].cell_lat)
                      /\ IsNull(df_model[i].cell_lon)

\* C23 amended: load_df_model raises nothing on rows with a missing
\* coordinate.  Each half of the cell_id is 'nan' where that coordinate is
\* missing and the grid cell of the coordinate where it is not, and cell_lat,
\* cell_lon are missing accordingly, so that the cell_id is 'nan_nan' only
\* when both are missing.  The observations of a date that agree in both
\* halves are one fused row, and that row is joined to the detections of the
\* date that agree with it in both halves: its frp_max is their largest frp.
C23_MissingHalfIsNan ==
    /\ (fire_csv # <<>> /\ meteo_csv # <<>>) => fusion_pc # "failed"
    /\ fusion_pc = "done" =>
          \A k \in DOMAIN meteo_csv :
              LET d == DateOfTime(meteo_csv[k].time)
                  id == HalfId(meteo_csv[k].latitude) \o <<"_">>
                            \o HalfId(meteo_csv[k].longitude)
              IN  /\ Cardinality(FusedRows(d, id)) = 1
                  /\ \A i \in FusedRows(d, id) :
                        /\ IsNull(df_model[i].cell_lat)
                              <=> meteo_csv[k].latitude = NanCoord
                        /\ IsNull(df_model[i].cell_lon)
                              <=> meteo_csv[k].longitude = NanCoord
                        /\ (id = NanNan) <=>
                              (meteo_csv[k].latitude = NanCoord
                                 /\ meteo_csv[k].longitude = NanCoord)
                        /\ df_model[i].frp_max =
                              IF DetectedFrp(d, id) = {} THEN 0
                              ELSE MaxOf(DetectedFrp(d, id))
    /\ fusion_pc = "done" =>
          \A i \in DOMAIN df_model :
              \E k \in DOMAIN meteo_csv :
                  /\ df_model[i].date = DateOfTime(meteo_csv[k].time)
                  /\ df_model[i].cell_id =
                        HalfId(meteo_csv[k].latitude) \o <<"_">>
                            \o HalfId(meteo_csv[k].longitude)

\* two observations of one day without latitude, at two longitudes, and a
\* detection without coordinates: two fused rows, none of them 'nan_nan' and
\* none of them joined to the detection
C23_Witness ==
    /\ fusion_pc = "done"
    /\ Len(meteo_csv) = 2
    /\ Len(fire_csv) = 1
    /\ \A k \in DOMAIN meteo_csv :
          meteo_csv[k].latitude = NanCoord /\ meteo_csv[k].longitude # NanCoord
    /\ fire_csv[1].latitude = NanCoord /\ fire_csv[1].longitude = NanCoord
    /\ Len(df_model) = 2
    /\ \A i \in DOMAIN df_model :
          /\ df_model[i].date = 1
          /\ df_model[i].cell_id # NanNan
          /\ IsNull(df_model[i].cell_lat)
          /\ df_model[i].frp_max = 0

-----------------------------------------------------------------------------
(* Claims: the model of a forecast run and evaluate_model *)

\* C24: the classifier is created once, by the step in which
\* train_and_return_model returns, and is never changed afterwards; the first
\* prediction of a forecast run is made with a returned classifier; training
\* raises only when the fusion, the split or the resampling raised, and once
\* it has returned, predictions.main goes on to prediction; evaluate_model
\* leaves the classifier and the training sets as they are whatever it
\* predicts, and a forecast run does not call it.
C24_ModelCreatedOnceAndAlwaysReturned ==
    [][/\ clf' # clf =>
            /\ clf = "none"
            /\ clf' \in Classifiers
            /\ train_pc = "running"
            /\ train_pc' = "returned"
       /\ train_pc \in {"returned", "raised"} => train_pc' = train_pc
       /\ (forecast_pc' = "predicted" /\ forecast_pc # "predicted") =>
            /\ train_pc = "returned"
            /\ clf \in Classifiers
            /\ clf' = clf
       /\ (train_pc' = "raised" /\ train_pc # "raised") =>
            fusion_pc = "failed" \/ split_pc = "failed"
       /\ (train_pc = "running" /\ split_pc = "returned") =>
            train_pc' \in {"running", "returned"}
       /\ (forecast_pc = "training" /\ train_pc = "returned") =>
            forecast_pc' \in {"training", "trained"}
       /\ (forecast_pc = "trained" /\ df_features # <<>>) =>
            forecast_pc' \in {"trained", "predicted"}
       /\ (model_pc' = "evaluated" /\ model_pc # "evaluated") =>
            /\ clf \in Classifiers
            /\ clf' = clf
            /\ train_resampled' = train_resampled
            /\ test' = test
            /\ train_pc' = train_pc
       /\ forecast_pc # "idle" => model_pc = "idle" /\ y_pred = <<>>
      ]_vars

\* a forecast run has predicted with the classifier its training returned
C24_Witness ==
    /\ forecast_pc = "predicted"
    /\ train_pc = "returned"
    /\ split_pc = "returned"
    /\ clf \in Classifiers
    /\ df_features # <<>>
    /\ model_pc = "idle"

\* predictive_model.main has evaluated the classifier it fitted
C24_Evaluated == model_pc = "evaluated" /\ y_pred # <<>> /\ clf \in Classifiers

-----------------------------------------------------------------------------
(* Claims: prepare_data on the output of load_df_model *)

\* C25: prepare_data applied to the table load_df_model returned drops no
\* row: X and y have one row for each row of the fused table, under the index
\* labels 0, 1, ... of the table in order, each with the 12 features and the
\* fire_class of that row.
C25_PrepareDataKeepsEveryFusedRow ==
    prepare_pc = "done" =>
        /\ Len(prepared[1].rows) = Len(df_model)
        /\ Len(prepared[2]) = Len(df_model)
        /\ \A i \in DOMAIN df_model :
              /\ prepared[1].rows[i].index = i - 1
              /\ prepared[2][i].index = i - 1
              /\ prepared[2][i].value = df_model[i].fire_class
              /\ \A c \in FeatureSet :
                    /\ ~IsNull(df_model[i][c])
                    /\ prepared[1].rows[i][c] = df_model[i][c]

\* two cells whose observations all lack sst, one of them with a detection:
\* both rows are in X and in y
C25_Witness ==
    /\ prepare_pc = "done"
    /\ Len(meteo_csv) = 2
    /\ \A k \in DOMAIN meteo_csv : IsNull(meteo_csv[k].sst)
    /\ Len(df_model) = 2
    /\ \E i \in DOMAIN df_model : df_model[i].fire_class # 0
    /\ Len(prepared[1].rows) = 2
    /\ Len(prepared[2]) = 2

-----------------------------------------------------------------------------
(* Claims: the feature schema *)

\* C26: the feature list of historic_data and the feature list of
\* predictive_model are the same 12 names in the same order, and in a forecast
\* run the columns of the matrix prepare_data built for the fit and the
\* columns of the matrix prepare_features built for the prediction are that
\* list: at every position both matrices hold the same feature, the one the
\* augmentor filled under that name.
C26_OneOrderedSchemaInEveryStage ==
    /\ Len(FEATURE_COLUMNS) = 12
    /\ Cardinality(FeatureSet) = 12
    /\ predictive_model_FEATURE_COLUMNS = FEATURE_COLUMNS
    /\ prepare_pc = "done" => prepared[1].columns = FEATURE_COLUMNS
    /\ forecast_pc \in {"prepared", "training", "trained", "predicted", "saved"} =>
          features_columns = FEATURE_COLUMNS
    /\ (prepare_pc = "done" /\ forecast_pc \in {"trained", "predicted", "saved"}) =>
          /\ Len(features_columns) = Len(prepared[1].columns)
          /\ \A j \in DOMAIN features_columns :
                features_columns[j] = prepared[1].columns[j]
          /\ \A k \in DOMAIN df_features :
                DOMAIN df_features[k] \ {"index"} = {features_columns[j] : j \in 1..12}
          /\ \A k \in DOMAIN prepared[1].rows :
                DOMAIN prepared[1].rows[k] \ {"index"} =
                    {prepared[1].columns[j] : j \in 1..12}

\* a forecast run has predicted on a matrix in the column order of the
\* matrix its classifier was fitted on
C26_Witness ==
    /\ forecast_pc = "predicted"
    /\ prepare_pc = "done"
    /\ clf \in Classifiers
    /\ Len(prepared[1].rows) > 0
    /\ Len(df_features) > 0
    /\ features_columns[6] = "sst"
    /\ prepared[1].columns[6] = "sst"

-----------------------------------------------------------------------------
(* Claims: the frame of the augmentation *)

\* the table of load_df_model before line 123
BeforeAugmentation == Labelled(fire_csv, meteo_csv)

\* C27: the table load_df_model returns has the rows of the table before the
\* augmentation, as many and in the same order, and each row has the columns
\* it had apart from the 12 features, with the values it had: date, cell_id,
\* frp_max and fire_class are unchanged.
C27_AugmentationChangesOnlyFeatures ==
    fusion_pc = "done" =>
        LET before == BeforeAugmentation
        IN  /\ Len(df_model) = Len(before)
            /\ \A i \in DOMAIN df_model :
                  /\ DOMAIN df_model[i] \ FeatureSet = DOMAIN before[i] \ FeatureSet
                  /\ {"date", "cell_id", "frp_max", "fire_class"} \subseteq DOMAIN df_model[i]
                  /\ \A c \in DOMAIN df_model[i] \ FeatureSet :
                        df_model[i][c] = before[i][c]

\* two fused rows of different classes, every feature of which was replaced
C27_Witness ==
    /\ fusion_pc = "done"
    /\ Len(df_model) = 2
    /\ df_model[1].fire_class # df_model[2].fire_class
    /\ df_model[1].frp_max # df_model[2].frp_max
    /\ LET before == BeforeAugmentation
       IN  \A i \in DOMAIN df_model : \A c \in FeatureSet :
              df_model[i][c] # before[i][c]

-----------------------------------------------------------------------------
(* Claims: what the resampling adds *)

\* the size of the largest class of the training split
LargestInTrain == MaxOf({Rows(train, c) : c \in ClassesIn(train)})

\* C28: when split_and_resample returns, the resampled training set holds
\* every row of the training split once, with its label; it has the classes
\* of the training split, each with as many rows as the largest class of the
\* training split had; every other row of it is synthetic and of a class
\* that was smaller than the largest.
C28_ResamplingOnlyAddsRows ==
    split_pc = "returned" =>
        /\ Len(train_resampled) >= Len(train)
        /\ \A i \in DOMAIN train :
              Cardinality({j \in DOMAIN train_resampled :
                              /\ train_resampled[j].id = train[i].id
                              /\ train_resampled[j].label = train[i].label
                              /\ ~train_resampled[j].synthetic}) = 1
        /\ ClassesIn(train_resampled) = ClassesIn(train)
        /\ \A c \in ClassesIn(train_resampled) :
              Rows(train_resampled, c) = LargestInTrain
        /\ \A j \in DOMAIN train_resampled :
              \/ \E i \in DOMAIN train : train[i] = train_resampled[j]
              \/ /\ train_resampled[j].synthetic
                 /\ Rows(train, train_resampled[j].label) < LargestInTrain
        /\ \A c \in ClassesIn(train) :
              Rows(train, c) = LargestInTrain =>
                  \A j \in DOMAIN train_resampled :
                      train_resampled[j].label = c => ~train_resampled[j].synthetic

\* a training split of 6 rows of one class and 8 of another returned with 2
\* synthetic rows, all of the smaller class
C28_Witness ==
    /\ split_pc = "returned"
    /\ Len(train) = 14
    /\ Rows(train, 0) = 6
    /\ Rows(train, 2) = 8
    /\ Len(train_resampled) = 16
    /\ Rows(train_resampled, 0) = 8
    /\ Rows(train_resampled, 2) = 8

-----------------------------------------------------------------------------
(* Claims: remap_time_column applied twice *)

\* C29: remap_time_column applied to its own output on the day of the first
\* call returns the table it was given: every row has the time it had, and
\* every other column as well.
C29_RemapIdempotentWithinADay ==
    (again_pc = "done" /\ day_again = today) =>
        /\ Len(df_again) = Len(df_meteo)
        /\ \A i \in DOMAIN df_meteo : df_again[i].time = df_meteo[i].time
        /\ df_again = df_meteo

\* a table of three rows with two distinct times, the later one first,
\* remapped twice on the same day
C29_Witness ==
    /\ again_pc = "done"
    /\ day_again = today
    /\ Len(forecast_csv) = 3
    /\ forecast_csv[1].time > forecast_csv[2].time
    /\ forecast_csv[3].time = forecast_csv[1].time
    /\ df_meteo[1].time = today + 1
    /\ df_meteo[2].time = today
    /\ df_again[1].time = today + 1

=============================================================================
